---- MODULE Spec2Model ----
(***************************************************************************)
(* IfcLCA-blend: material resolution, quantity (volume) resolution and     *)
(* carbon aggregation.                                                     *)
(*                                                                         *)
(*   root revision    src/logic.py      IfcMaterialExtractor,              *)
(*                                       SimplifiedIfcLCAAnalysis          *)
(*   bundled revision src/src/logic.py  IfcMaterialExtractor               *)
(*                                                                         *)
(* Numbers.  The code computes with Python floats.  A float is modelled as *)
(* an integer kept to MantBits significant bits (round to nearest, ties to *)
(* even, no exponent limit): IEEE-754 arithmetic with a short mantissa.    *)
(***************************************************************************)
EXTENDS Integers, Sequences, FiniteSets, TLC

VARIABLES
    ifcopenshell,      \* whether the module ifcopenshell was imported
    HAS_BONSAI,        \* whether bonsai's IfcStore was imported
    IfcStore_file,     \* IfcStore.get_file(): None or Bonsai's model
    ifc_file_path,     \* props.ifc_file_path
    ifc_loaded,        \* props.ifc_loaded
    _ifc_file,         \* the module global _ifc_file: None or a model
    material_mappings, \* props.material_mappings
    database_type,     \* props.database_type
    HAS_REQUESTS,      \* database_reader.HAS_REQUESTS
    results_text,      \* props.results_text
    results_json,      \* props.results_json
    total_carbon,      \* props.total_carbon
    show_results,      \* props.show_results
    op_report,         \* what the last execute returned and reported
    analysis_called,   \* whether the last execute called run_lca_analysis
    servers,           \* the TCP servers start_server created that are still serving
    _web_server,       \* the module global _web_server: None (0) or a server
    _okobaudat_cache,  \* _okobaudat_cache.cache: material id -> cached data
    material_database, \* scene.ifclca_material_database: the listed items
    raw_data,          \* the KBOB JSON file: a list of items
    kbob_data,         \* KBOBDatabaseReader.data after load_from_json
    kbob_list,         \* KBOBDatabaseReader.materials_list
    kbob_db,           \* KBOBReader.db after _load_kbob_v6_format
    remote,            \* the Oekobaudat API: what each request is answered with
    reader_data,       \* OkobaudatAPIReader.data: material id -> record
    materials_list,    \* OkobaudatAPIReader.materials_list
    _cached,           \* OkobaudatAPIReader._cached
    reader_out,        \* outcome of the last call on the OkobaudatAPIReader
    epd_data,          \* the raw EPD record handed to the Oekobaudat normaliser
    canon_out,         \* outcome of the last _transform_okobaudat_to_kbob_format call
    HAS_ELEMENT_UTIL,  \* whether ifcopenshell.util.element could be imported
    materials,         \* element -> what ifcopenshell.util.element.get_material reports
    psets,             \* element -> what ifcopenshell.util.element.get_psets reports
    data,              \* db_reader.data: database id -> record
    mapping,           \* analysis.mapping: sequence of <<material name, database id>>
    pc,                \* position of the running operation
    idx,               \* run(): index of the next mapping item
    results,           \* run(): local results
    detailed,          \* run(): local detailed_results
    detailed_results,  \* analysis.detailed_results (the attribute)
    returned,          \* what run_lca_analysis handed to its caller
    volume_out,        \* outcome of the last _get_element_volume call
    names_out,         \* element -> result of the last _get_all_material_names call
    counts_out,        \* result of the last get_all_materials call
    elements_out       \* material name -> result of the last get_elements_by_material call

\* the state of the model, the analysis and the material extractor
core == <<HAS_ELEMENT_UTIL, materials, psets, data, mapping, pc, idx, results, detailed,
          detailed_results, returned, volume_out, names_out, counts_out, elements_out>>

\* the state of the database normaliser
normVars == <<epd_data, canon_out>>

\* the state of everything but the model, the analysis and the extractor
\* the state of the OkobaudatAPIReader and of the API it queries
readerVars == <<remote, reader_data, materials_list, _cached, reader_out>>

\* the state of the two KBOB readers and the file they load
kbobVars == <<raw_data, kbob_data, kbob_list, kbob_db>>

opVars == <<ifcopenshell, HAS_BONSAI, IfcStore_file, ifc_file_path, ifc_loaded, _ifc_file, material_mappings, database_type, HAS_REQUESTS,
            results_text, results_json, total_carbon, show_results, op_report,
            analysis_called, servers, _web_server, _okobaudat_cache, material_database>>
others == <<normVars, readerVars, kbobVars, opVars>>

vars == <<core, others>>

NormIdle ==
    /\ epd_data = <<>>
    /\ canon_out = <<>>

ReaderIdle ==
    /\ remote = <<>>
    /\ reader_data = <<>>
    /\ materials_list = <<>>
    /\ _cached = FALSE
    /\ reader_out = <<>>

KbobIdle ==
    /\ raw_data = <<>>
    /\ kbob_data = <<>>
    /\ kbob_list = <<>>
    /\ kbob_db = <<>>

\* no results server was started
WebIdle == servers = <<>> /\ _web_server = 0

\* nothing is cached and no database item is listed
CacheIdle == _okobaudat_cache = <<>> /\ material_database = <<>>

OpIdle ==
    /\ WebIdle /\ CacheIdle
    /\ ifcopenshell = TRUE /\ HAS_BONSAI = FALSE /\ IfcStore_file = "None"
    /\ ifc_file_path = ""
    /\ ifc_loaded = FALSE /\ _ifc_file = "None" /\ material_mappings = <<>>
    /\ database_type = "KBOB" /\ HAS_REQUESTS = TRUE
    /\ results_text = "" /\ results_json = "" /\ total_carbon = 0
    /\ show_results = FALSE /\ op_report = <<>> /\ analysis_called = FALSE
OthersIdle == NormIdle /\ ReaderIdle /\ KbobIdle /\ OpIdle

-----------------------------------------------------------------------------
(* Bounds *)

NumElements == 2
MantBits == 4

Elements == 1 .. NumElements

\* ifc.by_type("IfcElement"): the accessor's native enumeration order
by_type == [i \in 1 .. NumElements |-> i]

-----------------------------------------------------------------------------
(* Float arithmetic *)

RECURSIVE UlpOf(_, _)
UlpOf(n, u) == IF n < u * (2 ^ MantBits) THEN u ELSE UlpOf(n, 2 * u)

RoundNat(n) ==
    LET u == UlpOf(n, 1)
        q == n \div u
        r == n % u
    IN  IF 2 * r < u THEN q * u
        ELSE IF 2 * r > u THEN (q + 1) * u
        ELSE IF q % 2 = 0 THEN q * u ELSE (q + 1) * u

FRound(n) == IF n < 0 THEN 0 - RoundNat(0 - n) ELSE RoundNat(n)

FMul(a, b) == FRound(a * b)
FAdd(a, b) == FRound(a + b)

-----------------------------------------------------------------------------
(* Property values, as get_psets reports them *)

Num(n)  == [kind |-> "num", n |-> n]        \* a bare int or float
Pair(n) == [kind |-> "dict", n |-> n]       \* {'value': n, ...} with n numeric
PairBad == [kind |-> "dictbad", n |-> 0]    \* {'value': x} where float(x) raises
Str     == [kind |-> "str", n |-> 0]        \* anything else (a string)

\* an optional float: None, or a number
None    == [set |-> FALSE, n |-> 0]
Some(n) == [set |-> TRUE, n |-> n]

\* the outcome of a call: a returned float, or an exception
Ret(v) == [raised |-> FALSE, v |-> v]
Raise  == [raised |-> TRUE, v |-> 0]

-----------------------------------------------------------------------------
(* Material associations, as get_material reports them.  `name` is the     *)
(* object's own Name attribute, `members` the names of the materials of    *)
(* its layers / list members / constituents / profiles, `ref` the set a    *)
(* Usage refers to (ForLayerSet, ForProfileSet; <<>> when unset); ""       *)
(* stands for a missing or empty name.                                     *)

Obj(kind, name, members, ref) ==
    [kind |-> kind, name |-> name, members |-> members, ref |-> ref]

NoMaterial == Obj("None", "", <<>>, <<>>)
IfcMaterial(n) == Obj("IfcMaterial", n, <<>>, <<>>)
IfcMaterialLayerSet(ms) == Obj("IfcMaterialLayerSet", "", ms, <<>>)
IfcMaterialLayerSetUsage(ref) == Obj("IfcMaterialLayerSetUsage", "", <<>>, ref)
IfcMaterialList(ms) == Obj("IfcMaterialList", "", ms, <<>>)
IfcMaterialConstituentSet(n, ms) == Obj("IfcMaterialConstituentSet", n, ms, <<>>)
IfcMaterialProfileSet(n, ms) == Obj("IfcMaterialProfileSet", n, ms, <<>>)
IfcMaterialProfileSetUsage(ref) == Obj("IfcMaterialProfileSetUsage", "", <<>>, ref)

NonEmpty(names) == SelectSeq(names, LAMBDA n : n # "")

-----------------------------------------------------------------------------
(* Root revision, src/logic.py: _get_element_volume *)

\* quantity_sets of _get_element_volume
quantity_sets ==
    << "Qto_WallBaseQuantities", "Qto_SlabBaseQuantities", "Qto_BeamBaseQuantities",
       "Qto_ColumnBaseQuantities", "Qto_DoorBaseQuantities", "Qto_WindowBaseQuantities",
       "Qto_CoveringBaseQuantities", "BaseQuantities" >>

\* the key list with NetVolume tried before GrossVolume
VolumeKeys_swapped == << "NetVolume", "GrossVolume", "Volume", "TotalSurfaceArea" >>

\* the keys tried in each quantity set, in priority order
VolumeKeys == << "GrossVolume", "NetVolume", "Volume", "TotalSurfaceArea" >>

\* Python's `part in text` for the group names and keys of the model
Substrings(text) ==
    CASE text = "Qto_WallBaseQuantities" -> {"Qto_WallBaseQuantities", "BaseQuantities"}
      [] text = "BaseQuantities"         -> {"BaseQuantities"}
      [] text = "TotalSurfaceArea"       -> {"TotalSurfaceArea", "SurfaceArea"}
      [] text = "OverallHeight"          -> {"OverallHeight", "Height"}
      [] text = "Height"                 -> {"Height"}
      [] text = "Width"                  -> {"Width"}
      [] text = "Length"                 -> {"Length"}
      [] text = "gross density"          -> {"gross density", "density"}
      [] OTHER                           -> {text}

Contains(text, part) == part \in Substrings(text)

\* `key in pset_data` and `pset_data[key]` on a group's entries (keys are distinct)
HasKey(props, key) == \E i \in DOMAIN props : props[i].key = key
Lookup(props, key) == props[CHOOSE i \in DOMAIN props : props[i].key = key].value

\* vol * 0.2 (exact in the model: the areas drawn are multiples of 5)
ScaleArea(vol) == FRound((vol * 2) \div 10)

\* any(qs in pset_name for qs in quantity_sets)
IsQuantitySet(pset_name) ==
    \E i \in DOMAIN quantity_sets : Contains(pset_name, quantity_sets[i])

\* _get_element_volume, the loop over the keys of one quantity set
\* ([t |-> "none"] when the loop ends without returning)
RECURSIVE ScanKeys(_, _, _)
ScanKeys(props, keys, k) ==
    IF k > Len(keys) THEN [t |-> "none", v |-> 0]
    ELSE LET key == keys[k] IN
         IF ~HasKey(props, key) THEN ScanKeys(props, keys, k + 1)
         ELSE LET value == Lookup(props, key) IN
              IF value.kind = "dictbad" THEN [t |-> "raise", v |-> 0]
              ELSE IF value.kind = "dict"
                   THEN IF value.n > 0
                        THEN [t |-> "ret",
                              v |-> IF Contains(key, "SurfaceArea")
                                    THEN ScaleArea(value.n) ELSE value.n]
                        ELSE ScanKeys(props, keys, k + 1)
              ELSE IF value.kind = "num" /\ value.n > 0
                   THEN [t |-> "ret", v |-> value.n]
              ELSE ScanKeys(props, keys, k + 1)

\* _get_element_volume, the loop over all_psets looking for quantity sets
RECURSIVE ScanQuantitySets(_, _)
ScanQuantitySets(all_psets, g) ==
    IF g > Len(all_psets) THEN [t |-> "none", v |-> 0]
    ELSE IF IsQuantitySet(all_psets[g].name)
         THEN LET r == ScanKeys(all_psets[g].props, VolumeKeys, 1) IN
              IF r.t = "none" THEN ScanQuantitySets(all_psets, g + 1) ELSE r
         ELSE ScanQuantitySets(all_psets, g + 1)

\* _extract_numeric_value: [t |-> "raise"] or [t |-> "ok", o |-> optional float]
_extract_numeric_value(value) ==
    IF value.kind = "dictbad" THEN [t |-> "raise", o |-> None]
    ELSE IF value.kind \in {"dict", "num"} THEN [t |-> "ok", o |-> Some(value.n)]
    ELSE [t |-> "ok", o |-> None]

\* the if/elif chain on one (key, value) of the dimension loop;
\* d = [t, height, width, length]
DimStep(d, key, value) ==
    IF Contains(key, "Height") /\ ~d.height.set
    THEN LET x == _extract_numeric_value(value) IN
         IF x.t = "raise" THEN [d EXCEPT !.t = "raise"] ELSE [d EXCEPT !.height = x.o]
    ELSE IF Contains(key, "Width") /\ ~d.width.set
    THEN LET x == _extract_numeric_value(value) IN
         IF x.t = "raise" THEN [d EXCEPT !.t = "raise"] ELSE [d EXCEPT !.width = x.o]
    ELSE IF Contains(key, "Length") /\ ~d.length.set
    THEN LET x == _extract_numeric_value(value) IN
         IF x.t = "raise" THEN [d EXCEPT !.t = "raise"] ELSE [d EXCEPT !.length = x.o]
    ELSE d

RECURSIVE DimProps(_, _, _)
DimProps(props, i, d) ==
    IF i > Len(props) \/ d.t = "raise" THEN d
    ELSE DimProps(props, i + 1, DimStep(d, props[i].key, props[i].value))

\* _get_element_volume, the loop over all_psets looking for dimensions
RECURSIVE DimGroups(_, _, _)
DimGroups(all_psets, g, d) ==
    IF g > Len(all_psets) \/ d.t = "raise" THEN d
    ELSE DimGroups(all_psets, g + 1, DimProps(all_psets[g].props, 1, d))

\* Python truthiness of an optional float
Truthy(o) == o.set /\ o.n # 0

\* _get_element_volume on the property groups of one element
VolumeOf(all_psets) ==
    LET q == ScanQuantitySets(all_psets, 1) IN
    IF q.t = "raise" THEN Raise
    ELSE IF q.t = "ret" THEN Ret(q.v)
    ELSE LET d == DimGroups(all_psets, 1,
                      [t |-> "ok", height |-> None, width |-> None, length |-> None]) IN
         IF d.t = "raise" THEN Raise
         ELSE IF Truthy(d.height) /\ Truthy(d.width) /\ Truthy(d.length)
              THEN Ret(FMul(FMul(d.height.n, d.width.n), d.length.n))
              ELSE Ret(0)

_get_element_volume(element) == VolumeOf(psets[element])

-----------------------------------------------------------------------------
(* The property groups the model draws *)

PsetNames == {"Qto_WallBaseQuantities", "BaseQuantities", "Pset_WallCommon"}

\* the keys a drawn group may hold, in the order the group enumerates them
KeyOrder ==
    << "GrossVolume", "NetVolume", "Volume", "TotalSurfaceArea",
       "Height", "OverallHeight", "Width", "Length" >>

\* the value shapes each key is drawn with (positive areas are multiples of 5)
KeyValues(key) ==
    CASE key = "GrossVolume"      -> {Num(5), Num(-1), Pair(0), PairBad}
      [] key = "NetVolume"        -> {Pair(10)}
      [] key = "Volume"           -> {Num(3)}
      [] key = "TotalSurfaceArea" -> {Num(15), Pair(10)}
      [] key = "Height"           -> {Num(-1), Num(2), Pair(0), PairBad, Str}
      [] key = "OverallHeight"    -> {Pair(3)}
      [] key = "Width"            -> {Num(5)}
      [] key = "Length"           -> {Pair(3)}

MaxProps == 2      \* entries per group

\* the entry lists over the keys KeyOrder[i..] with at most n entries
RECURSIVE PropSeqs(_, _)
PropSeqs(i, n) ==
    IF n = 0 \/ i > Len(KeyOrder) THEN {<<>>}
    ELSE PropSeqs(i + 1, n)
         \cup { <<[key |-> KeyOrder[i], value |-> v]>> \o s :
                    v \in KeyValues(KeyOrder[i]), s \in PropSeqs(i + 1, n - 1) }

PropSet == PropSeqs(1, MaxProps)

GroupSet == [name : PsetNames, props : PropSet]

\* a group list has distinct names (all_psets is a dict)
DistinctNames(gs) == \A i, j \in DOMAIN gs : i # j => gs[i].name # gs[j].name

NotCalled == [elem |-> 0, out |-> Ret(0)]

-----------------------------------------------------------------------------
(* Specification of the quantity resolver: _get_element_volume on one element *)
(* with at most two property groups                                          *)

InitVolume ==
    /\ \E n \in 0 .. 2 :
          \E gs \in [1 .. n -> GroupSet] :
              /\ DistinctNames(gs)
              /\ psets = [e \in Elements |-> IF e = 1 THEN gs ELSE <<>>]
    /\ HAS_ELEMENT_UTIL = TRUE
    /\ materials = [e \in Elements |-> NoMaterial]
    /\ data = <<>>
    /\ mapping = <<>>
    /\ pc = "idle"
    /\ idx = 0
    /\ results = <<>>
    /\ detailed = <<>>
    /\ detailed_results = <<>>
    /\ returned = <<>>
    /\ volume_out = NotCalled
    /\ names_out = <<>>
    /\ counts_out = <<>>
    /\ elements_out = <<>>
    /\ OthersIdle

GetElementVolume(element) ==
    /\ volume_out' = [elem |-> element, out |-> _get_element_volume(element)]
    /\ UNCHANGED <<others, HAS_ELEMENT_UTIL, materials, psets, data, mapping, pc, idx, results, detailed,
                   detailed_results, returned, names_out, counts_out, elements_out>>

\* the element under test is the first one; the others carry no property group
NextVolume == GetElementVolume(by_type[1])

SpecVolume == InitVolume /\ [][NextVolume]_vars

-----------------------------------------------------------------------------
(* Root revision, src/logic.py: IfcMaterialExtractor *)

\* _get_material_names: duck-typed on the attributes the object has
_get_material_names(material) ==
    LET own    == IF material.kind \in {"IfcMaterial", "IfcMaterialConstituentSet",
                                        "IfcMaterialProfileSet"}
                  THEN <<material.name>> ELSE <<>>
        layers == IF material.kind = "IfcMaterialLayerSet"
                  THEN NonEmpty(material.members) ELSE <<>>
        list   == IF material.kind = "IfcMaterialList"
                  THEN NonEmpty(material.members) ELSE <<>>
    IN  own \o layers \o list

\* _get_material_name: names[0] if names else None ("" stands for None)
_get_material_name(material) ==
    LET names == _get_material_names(material) IN
    IF names # <<>> THEN names[1] ELSE ""

\* get_elements_by_material of the root revision: the elements, in by_type
\* order, whose first material name is material_name
get_elements_by_material_root(material_name) ==
    SelectSeq(by_type, LAMBDA element :
        /\ materials[element].kind # "None"
        /\ _get_material_name(materials[element]) = material_name)

-----------------------------------------------------------------------------
(* Root revision, src/logic.py: SimplifiedIfcLCAAnalysis and run_lca_analysis *)

\* db_reader.get_material_data(id): self.data.get(material_id, {})
Absent == [present |-> FALSE, density |-> 0, carbon_per_unit |-> 0]
Record(d, c) == [present |-> TRUE, density |-> d, carbon_per_unit |-> c]
get_material_data(material_id) ==
    IF material_id \in DOMAIN data THEN data[material_id] ELSE Absent

\* the loop body without the `if volume > 0` guard
Accumulate_unguarded(acc, out, density, carbon_per_unit) ==
    IF out.raised THEN [acc EXCEPT !.raised = TRUE]
    ELSE [acc EXCEPT
            !.total_volume = FAdd(acc.total_volume, out.v),
            !.total_carbon = FAdd(acc.total_carbon,
                                  FMul(FMul(out.v, density), carbon_per_unit)),
            !.elements_with_volume = acc.elements_with_volume + 1]

\* run(), the body of the loop over the elements of one material;
\* acc = [raised, total_volume, total_carbon, elements_with_volume]
Accumulate(acc, out, density, carbon_per_unit) ==
    IF out.raised THEN [acc EXCEPT !.raised = TRUE]
    ELSE IF out.v > 0
    THEN [acc EXCEPT
            !.total_volume = FAdd(acc.total_volume, out.v),
            !.total_carbon = FAdd(acc.total_carbon,
                                  FMul(FMul(out.v, density), carbon_per_unit)),
            !.elements_with_volume = acc.elements_with_volume + 1]
    ELSE acc

RECURSIVE ElementLoop(_, _, _, _, _)
ElementLoop(elements, i, acc, density, carbon_per_unit) ==
    IF i > Len(elements) \/ acc.raised THEN acc
    ELSE ElementLoop(elements, i + 1,
                     Accumulate(acc, _get_element_volume(elements[i]),
                                density, carbon_per_unit),
                     density, carbon_per_unit)

\* the detailed_results entry run() stores for one material
DetailedEntry(database_id, elements, acc, density, carbon_per_unit) ==
    [database_id |-> database_id,
     element_count |-> Len(elements),
     elements_with_volume |-> acc.elements_with_volume,
     total_volume |-> acc.total_volume,
     total_mass |-> FMul(acc.total_volume, density),
     total_carbon |-> acc.total_carbon,
     density |-> density,
     carbon_per_unit |-> carbon_per_unit]

\* dict assignment d[k] = v
Put(d, k, v) == (k :> v) @@ d

\* run_lca_analysis builds a SimplifiedIfcLCAAnalysis (no detailed_results
\* attribute yet) and calls run(): results = {}, detailed_results = {}
RunStart ==
    /\ pc = "idle"
    /\ pc' = "run"
    /\ idx' = 1
    /\ results' = <<>>
    /\ detailed' = <<>>
    /\ UNCHANGED <<others, HAS_ELEMENT_UTIL, materials, psets, data, mapping, detailed_results, returned,
                   volume_out, names_out, counts_out, elements_out>>

\* run(): one pass of the loop over self.mapping.items()
RunMaterial ==
    /\ pc = "run"
    /\ idx <= Len(mapping)
    /\ LET material_name == mapping[idx][1]
           database_id   == mapping[idx][2]
           elements      == get_elements_by_material_root(material_name)
           material_data == get_material_data(database_id)
           density       == material_data.density
           carbon_per_unit == material_data.carbon_per_unit
           acc == ElementLoop(elements, 1,
                              [raised |-> FALSE, total_volume |-> 0, total_carbon |-> 0,
                               elements_with_volume |-> 0],
                              density, carbon_per_unit)
       IN  IF database_id = "" \/ ~material_data.present
              \/ density = 0 \/ carbon_per_unit = 0
           THEN \* continue
                /\ idx' = idx + 1
                /\ UNCHANGED <<pc, results, detailed>>
           ELSE IF acc.raised
           THEN \* the exception of _get_element_volume leaves run()
                /\ pc' = "raised"
                /\ UNCHANGED <<idx, results, detailed>>
           ELSE /\ idx' = idx + 1
                /\ results' = Put(results, database_id, acc.total_carbon)
                /\ detailed' = Put(detailed, material_name,
                                   DetailedEntry(database_id, elements, acc,
                                                 density, carbon_per_unit))
                /\ pc' = pc
    /\ UNCHANGED <<others, HAS_ELEMENT_UTIL, materials, psets, data, mapping, detailed_results, returned,
                   volume_out, names_out, counts_out, elements_out>>

\* run() stores self.detailed_results and returns; run_lca_analysis returns
\* (results, analysis.get_detailed_results())
RunFinish ==
    /\ pc = "run"
    /\ idx > Len(mapping)
    /\ detailed_results' = detailed
    /\ returned' = <<results, detailed>>
    /\ pc' = "done"
    /\ UNCHANGED <<others, HAS_ELEMENT_UTIL, materials, psets, data, mapping, idx, results, detailed,
                   volume_out, names_out, counts_out, elements_out>>

-----------------------------------------------------------------------------
(* The models, databases and mappings the aggregation is run on *)

MaterialNames == {"Concrete", "Steel"}
DbIds == {"REC_1", "REC_2"}

Group(name, props) == [name |-> name, props |-> props]
Prop(key, value) == [key |-> key, value |-> value]

RunPsets ==
    { <<>>,
      << Group("Qto_WallBaseQuantities", << Prop("GrossVolume", Num(5)) >>) >>,
      << Group("BaseQuantities", << Prop("NetVolume", Pair(10)) >>) >>,
      << Group("Pset_WallCommon", << Prop("Height", Num(-1)), Prop("Width", Num(5)),
                                     Prop("Length", Pair(3)) >>) >>,
      << Group("Qto_WallBaseQuantities", << Prop("GrossVolume", PairBad) >>) >> }

RunMaterials ==
    { NoMaterial, IfcMaterial("Steel"), IfcMaterialLayerSet(<<"Concrete", "Steel">>) }

RunRecords == { Absent, Record(2, 7), Record(0, 7), Record(2, 0) }

InitRun ==
    /\ HAS_ELEMENT_UTIL = TRUE
    /\ materials \in [Elements -> RunMaterials]
    /\ psets \in [Elements -> RunPsets]
    /\ \E r1 \in RunRecords, r2 \in {Record(7, 3), Record(5, -3)} :
          data = [id \in (IF r1.present THEN {"REC_1"} ELSE {}) \cup {"REC_2"} |->
                     IF id = "REC_1" THEN r1 ELSE r2]
    /\ \E x, y \in DbIds \cup {""} :
          mapping = << <<"Concrete", x>>, <<"Steel", y>> >>
    /\ pc = "idle"
    /\ idx = 0
    /\ results = <<>>
    /\ detailed = <<>>
    /\ detailed_results = <<>>
    /\ returned = <<>>
    /\ volume_out = NotCalled
    /\ names_out = <<>>
    /\ counts_out = <<>>
    /\ elements_out = <<>>
    /\ OthersIdle

Next == RunStart \/ RunMaterial \/ RunFinish

Spec == InitRun /\ [][Next]_vars

-----------------------------------------------------------------------------
(* Bundled revision, src/src/logic.py: IfcMaterialExtractor *)

\* ifcopenshell.util.element.get_material(element); the mock installed when
\* the import fails reports None for every element
get_material(element) ==
    IF HAS_ELEMENT_UTIL THEN materials[element] ELSE NoMaterial

\* element.HasAssociations, reduced to the RelatingMaterial of each
\* IfcRelAssociatesMaterial: the association get_material reads
HasAssociations(element) ==
    IF materials[element].kind = "None" THEN <<>> ELSE <<materials[element]>>

\* the same branches with the two Usage branches yielding nothing
_extract_material_names_from_object_flat(material) ==
    CASE material.kind = "IfcMaterial" ->
            IF material.name # "" THEN <<material.name>> ELSE <<>>
      [] material.kind \in {"IfcMaterialLayerSet", "IfcMaterialList",
                            "IfcMaterialConstituentSet", "IfcMaterialProfileSet"} ->
            NonEmpty(material.members)
      [] OTHER -> <<>>

\* _extract_material_names_from_object: one branch per is_a() test, the two
\* Usage branches recursing into the set they refer to
RECURSIVE _extract_material_names_from_object(_)
_extract_material_names_from_object(material) ==
    CASE material.kind = "None" -> <<>>
      [] material.kind = "IfcMaterial" ->
            IF material.name # "" THEN <<material.name>> ELSE <<>>
      [] material.kind = "IfcMaterialLayerSet" -> NonEmpty(material.members)
      [] material.kind = "IfcMaterialLayerSetUsage" ->
            IF material.ref # <<>>
            THEN _extract_material_names_from_object(material.ref[1]) ELSE <<>>
      [] material.kind = "IfcMaterialList" -> NonEmpty(material.members)
      [] material.kind = "IfcMaterialConstituentSet" -> NonEmpty(material.members)
      [] material.kind = "IfcMaterialProfileSet" -> NonEmpty(material.members)
      [] material.kind = "IfcMaterialProfileSetUsage" ->
            IF material.ref # <<>>
            THEN _extract_material_names_from_object(material.ref[1]) ELSE <<>>
      [] OTHER -> <<>>

RECURSIVE ExtendFromAssociations(_, _, _)
ExtendFromAssociations(associations, i, names) ==
    IF i > Len(associations) THEN names
    ELSE ExtendFromAssociations(associations, i + 1,
             names \o _extract_material_names_from_object(associations[i]))

\* _get_all_material_names: Method 1 through get_material, Method 2 through
\* HasAssociations only while names is still empty
_get_all_material_names(element) ==
    LET material == get_material(element)
        names1 == IF HAS_ELEMENT_UTIL /\ material.kind # "None"
                  THEN _extract_material_names_from_object(material) ELSE <<>>
    IN  IF names1 = <<>>
        THEN ExtendFromAssociations(HasAssociations(element), 1, names1)
        ELSE names1

Range(s) == { s[i] : i \in DOMAIN s }

\* every order in which the members of a set can be iterated
RECURSIVE Orderings(_)
Orderings(S) ==
    IF S = {} THEN { <<>> }
    ELSE UNION { { <<x>> \o o : o \in Orderings(S \ {x}) } : x \in S }

\* get_all_materials without set(): every occurrence is iterated
unique_materials_list(material_names) == { material_names }

\* unique_materials = set(material_names), as the sequences its iteration
\* can produce (the order of a set of strings is not fixed)
unique_materials(material_names) == Orderings(Range(material_names))

\* materials_usage[name] = materials_usage.get(name, 0) + 1 on a dict kept
\* in insertion order
Bump(usage, name) ==
    IF \E i \in DOMAIN usage : usage[i].name = name
    THEN [i \in DOMAIN usage |->
             IF usage[i].name = name
             THEN [name |-> name, count |-> usage[i].count + 1] ELSE usage[i]]
    ELSE Append(usage, [name |-> name, count |-> 1])

\* for material_name in unique_materials: if material_name: ...
RECURSIVE CountNames(_, _, _)
CountNames(usage, order, i) ==
    IF i > Len(order) THEN usage
    ELSE CountNames(IF order[i] # "" THEN Bump(usage, order[i]) ELSE usage,
                    order, i + 1)

\* for element in elements: the dicts the loop can end with
RECURSIVE UsageLoop(_, _)
UsageLoop(i, usages) ==
    IF i > Len(by_type) THEN usages
    ELSE UsageLoop(i + 1,
             { CountNames(u, o, 1) :
                 u \in usages,
                 o \in unique_materials(_get_all_material_names(by_type[i])) })

\* sorted(items, key=count, reverse=True): stable, equal counts keep their order
RECURSIVE sorted(_, _, _)
sorted(items, i, out) ==
    IF i > Len(items) THEN out
    ELSE LET x == items[i]
             k == Cardinality({ j \in DOMAIN out : out[j].count >= x.count })
         IN  sorted(items, i + 1,
                    SubSeq(out, 1, k) \o <<x>> \o SubSeq(out, k + 1, Len(out)))

\* get_elements_by_material matching the first name only
get_elements_by_material_first(material_name) ==
    SelectSeq(by_type, LAMBDA element :
        LET material_names == _get_all_material_names(element) IN
        material_names # <<>> /\ material_names[1] = material_name)

\* get_elements_by_material: material_name in material_names
get_elements_by_material(material_name) ==
    SelectSeq(by_type, LAMBDA element :
        material_name \in Range(_get_all_material_names(element)))

GetAllMaterialNames(element) ==
    /\ names_out' = (element :> _get_all_material_names(element)) @@ names_out
    /\ UNCHANGED <<others, HAS_ELEMENT_UTIL, materials, psets, data, mapping, pc, idx, results,
                   detailed, detailed_results, returned, volume_out, counts_out,
                   elements_out>>

GetAllMaterials ==
    /\ \E usage \in UsageLoop(1, { <<>> }) :
           counts_out' = << sorted(usage, 1, <<>>) >>
    /\ UNCHANGED <<others, HAS_ELEMENT_UTIL, materials, psets, data, mapping, pc, idx, results,
                   detailed, detailed_results, returned, volume_out, names_out,
                   elements_out>>

GetElementsByMaterial(material_name) ==
    /\ elements_out' =
           (material_name :> get_elements_by_material(material_name)) @@ elements_out
    /\ UNCHANGED <<others, HAS_ELEMENT_UTIL, materials, psets, data, mapping, pc, idx, results,
                   detailed, detailed_results, returned, volume_out, names_out,
                   counts_out>>

\* the associations elements carry
Associations ==
    { NoMaterial,
      IfcMaterial("Concrete"),
      IfcMaterial(""),
      IfcMaterialLayerSet(<<"Concrete", "Concrete">>),
      IfcMaterialLayerSet(<<"Concrete", "", "Steel">>),
      IfcMaterialLayerSetUsage(<<IfcMaterialLayerSet(<<"Steel", "Concrete">>)>>),
      IfcMaterialLayerSetUsage(<<>>),
      IfcMaterialList(<<"Steel", "Concrete", "Steel">>),
      IfcMaterialConstituentSet("Mix", <<"Concrete", "Steel">>),
      IfcMaterialProfileSet("Beam", <<"Steel">>),
      IfcMaterialProfileSetUsage(<<IfcMaterialProfileSet("Beam", <<"Steel">>)>>),
      Obj("IfcMaterialProfile", "Steel", <<>>, <<>>) }

\* the names a caller asks get_elements_by_material about
Queries == MaterialNames \cup {"Timber"}

InitMaterials ==
    /\ HAS_ELEMENT_UTIL \in BOOLEAN
    /\ materials \in [Elements -> Associations]
    /\ psets = [e \in Elements |-> <<>>]
    /\ data = <<>>
    /\ mapping = <<>>
    /\ pc = "idle"
    /\ idx = 0
    /\ results = <<>>
    /\ detailed = <<>>
    /\ detailed_results = <<>>
    /\ returned = <<>>
    /\ volume_out = NotCalled
    /\ names_out = <<>>
    /\ counts_out = <<>>
    /\ elements_out = <<>>
    /\ OthersIdle

NextMaterials ==
    \/ \E element \in Elements : GetAllMaterialNames(element)
    \/ GetAllMaterials
    \/ \E material_name \in Queries : GetElementsByMaterial(material_name)

SpecMaterials == InitMaterials /\ [][NextMaterials]_vars

-----------------------------------------------------------------------------
(* Claims about the aggregation run (Spec) *)

\* the mapping items run() does not skip as unmapped
Mapped == { i \in DOMAIN mapping : mapping[i][2] # "" }

\* C1: after run, every material of the detailed results has
\* total_mass = total_volume * density and total_carbon = total_mass *
\* carbon_per_unit (the accumulated carbon equals the closed-form product).
C1_TotalsClosedForm ==
    pc = "done" =>
        \A m \in DOMAIN detailed_results :
            LET r == detailed_results[m] IN
            /\ r.total_mass = FMul(r.total_volume, r.density)
            /\ r.total_carbon = FMul(r.total_mass, r.carbon_per_unit)

\* C2: a mapped material whose record exists with density 0 or impact 0 still
\* gets an entry in the result, with total impact 0.
C2_ZeroRecordReported ==
    pc = "done" =>
        \A i \in Mapped :
            LET rec == get_material_data(mapping[i][2]) IN
            (rec.present /\ (rec.density = 0 \/ rec.carbon_per_unit = 0)) =>
                /\ mapping[i][1] \in DOMAIN detailed_results
                /\ detailed_results[mapping[i][1]].total_carbon = 0

\* the unresolved-mapping list of a return value: the component after the
\* results and the detailed results, if the tuple has one
UnresolvedList(ret) == IF Len(ret) >= 3 THEN ret[3] ELSE <<>>

\* C3: a material mapped to a record id absent from the database is not in
\* the result map and is in the unresolved-mapping list returned to the caller.
C3_UnresolvedReported ==
    pc = "done" =>
        \A i \in Mapped :
            ~get_material_data(mapping[i][2]).present =>
                /\ mapping[i][1] \notin DOMAIN returned[2]
                /\ \E k \in DOMAIN UnresolvedList(returned) :
                       UnresolvedList(returned)[k] = mapping[i][1]

\* the elements matched to a material, and their resolved volumes
C4_Matched(m) ==
    { e \in Elements : materials[e].kind # "None"
                       /\ _get_material_name(materials[e]) = m }
C4_Volume(e) == VolumeOf(psets[e]).v

\* total volume and carbon over the first n elements of by_type, taking only
\* the matched elements of volume > 0
RECURSIVE C4_Totals(_, _, _, _)
C4_Totals(m, n, density, carbon_per_unit) ==
    IF n = 0 THEN [volume |-> 0, carbon |-> 0]
    ELSE LET t == C4_Totals(m, n - 1, density, carbon_per_unit)
             e == by_type[n]
         IN  IF e \in C4_Matched(m) /\ C4_Volume(e) > 0
             THEN [volume |-> FAdd(t.volume, C4_Volume(e)),
                   carbon |-> FAdd(t.carbon,
                                   FMul(FMul(C4_Volume(e), density), carbon_per_unit))]
             ELSE t

\* C4: element_count counts the matched elements, elements_with_volume those
\* of volume > 0, and an element without volume is counted in element_count
\* while adding nothing to total_volume, total_mass or total_carbon.
C4_Counts ==
    pc = "done" =>
        \A m \in DOMAIN detailed_results :
            LET r == detailed_results[m]
                t == C4_Totals(m, Len(by_type), r.density, r.carbon_per_unit)
            IN  /\ r.element_count = Cardinality(C4_Matched(m))
                /\ r.elements_with_volume =
                       Cardinality({ e \in C4_Matched(m) : C4_Volume(e) > 0 })
                /\ r.elements_with_volume <= r.element_count
                /\ r.total_volume = t.volume
                /\ r.total_mass = FMul(t.volume, r.density)
                /\ r.total_carbon = t.carbon

\* C4 witness: a material with two matched elements, one of them without volume
C4_Witness ==
    /\ pc = "done"
    /\ \E m \in DOMAIN detailed_results :
           /\ detailed_results[m].element_count = 2
           /\ detailed_results[m].elements_with_volume = 1
           /\ \E e \in C4_Matched(m) : C4_Volume(e) = 0

\* C9: no property-group content makes _get_element_volume raise, so run()
\* always completes.
C9_RunCompletes == pc # "raised"

-----------------------------------------------------------------------------
(* Claims about the bundled material resolver (SpecMaterials) *)

\* C5: the names resolved for one element hold no name twice: an element
\* whose layered set names "Concrete" in two layers resolves to one
\* "Concrete" only.
C5_NoDuplicates ==
    \A e \in DOMAIN names_out :
        \A i, j \in DOMAIN names_out[e] :
            i # j => names_out[e][i] # names_out[e][j]

\* the names an association of one of the seven shapes carries at its
\* leaves; an object of any other shape names no material
C6_Leaves(material) ==
    IF material.kind = "IfcMaterial" THEN {material.name} \ {""}
    ELSE IF material.kind \in {"IfcMaterialLayerSet", "IfcMaterialList",
                               "IfcMaterialConstituentSet", "IfcMaterialProfileSet"}
    THEN Range(material.members) \ {""}
    ELSE {}

C6_Named(material) ==
    IF /\ material.kind \in {"IfcMaterialLayerSetUsage", "IfcMaterialProfileSetUsage"}
       /\ material.ref # <<>>
    THEN C6_Leaves(material.ref[1])
    ELSE C6_Leaves(material)

C6_CountOf(list, n) ==
    IF \E i \in DOMAIN list : list[i].name = n
    THEN list[CHOOSE i \in DOMAIN list : list[i].name = n].count
    ELSE 0

\* C6: get_all_materials reports each name once, and the count reported for
\* a name is the number of elements whose association names it at least
\* once, however many layers or constituents repeat it; a name no element
\* carries, and an element without material, add nothing.
C6_CountsOncePerElement ==
    counts_out # <<>> =>
        LET list == counts_out[1] IN
        /\ \A i, j \in DOMAIN list : i # j => list[i].name # list[j].name
        /\ \A i \in DOMAIN list : list[i].name \in MaterialNames /\ list[i].count > 0
        /\ \A n \in Queries \cup {""} :
               C6_CountOf(list, n) =
                   Cardinality({ e \in Elements : n \in C6_Named(materials[e]) })

\* get_all_materials has run on a model where an element repeats a name
\* within its association and was counted once for it
C6_Witness ==
    /\ counts_out # <<>>
    /\ \E e \in Elements :
          /\ materials[e] = IfcMaterialLayerSet(<<"Concrete", "Concrete">>)
          /\ \A o \in Elements \ {e} : materials[o] = IfcMaterial("Concrete")
    /\ counts_out[1] = << [name |-> "Concrete", count |-> NumElements] >>

\* C7: forward and reverse resolution agree: an element whose resolved names
\* hold n is among get_elements_by_material(n), and every element
\* get_elements_by_material(n) returns has n among its resolved names.
C7_RoundTrip ==
    \A n \in DOMAIN elements_out :
        \A e \in DOMAIN names_out :
            (n \in Range(names_out[e])) <=> (e \in Range(elements_out[n]))

\* an element resolved to two names is found by a query for its second name
C7_Witness ==
    \E n \in DOMAIN elements_out :
        \E e \in DOMAIN names_out :
            /\ Len(names_out[e]) >= 2
            /\ names_out[e][1] # n
            /\ names_out[e][2] = n
            /\ e \in Range(elements_out[n])

-----------------------------------------------------------------------------
(* Claims about the quantity resolver (SpecVolume) *)

VolumeCalled == volume_out.elem # 0
VolumeInput == psets[by_type[1]]

\* C8: _get_element_volume returns a value >= 0, also when the Height /
\* Width / Length properties are zero or negative.
C8_ReturnsNonNegative ==
    (VolumeCalled /\ ~volume_out.out.raised) => volume_out.out.v >= 0

\* positions, in scanning order: <<group, index>>
Before(a, b) == a[1] < b[1] \/ (a[1] = b[1] /\ a[2] < b[2])
IsNumber(value) == value.kind \in {"num", "dict"}

\* the quantity-set entries under the keys `keys`: <<group, key index>>
QuantityProbes(ps, keys) ==
    { a \in (DOMAIN ps) \X (DOMAIN keys) :
        IsQuantitySet(ps[a[1]].name) /\ HasKey(ps[a[1]].props, keys[a[2]]) }
ProbeValue(ps, keys, a) == Lookup(ps[a[1]].props, keys[a[2]])
ProbePositive(ps, keys, a) ==
    IsNumber(ProbeValue(ps, keys, a)) /\ ProbeValue(ps, keys, a).n > 0

\* the entries whose key names an axis: <<group, entry index>>
AxisEntries(ps, axis) ==
    { a \in (DOMAIN ps) \X (1 .. MaxProps + 1) :
        a[2] \in DOMAIN ps[a[1]].props /\ Contains(ps[a[1]].props[a[2]].key, axis) }
EntryValue(ps, a) == ps[a[1]].props[a[2]].value
First(S) == CHOOSE a \in S : \A b \in S : ~Before(b, a)

\* the claimed chain: first positive GrossVolume / NetVolume / Volume, else
\* Height x Width x Length from the first matching key per axis, else 0
C10_ClaimedKeys == << "GrossVolume", "NetVolume", "Volume" >>
C10_ClaimedAxis(ps, axis) ==
    IF AxisEntries(ps, axis) = {} THEN None
    ELSE LET value == EntryValue(ps, First(AxisEntries(ps, axis))) IN
         IF IsNumber(value) THEN Some(value.n) ELSE None
C10_Claimed(ps) ==
    LET pos == { a \in QuantityProbes(ps, C10_ClaimedKeys) :
                    ProbePositive(ps, C10_ClaimedKeys, a) }
        h == C10_ClaimedAxis(ps, "Height")
        w == C10_ClaimedAxis(ps, "Width")
        l == C10_ClaimedAxis(ps, "Length")
    IN  IF pos # {} THEN Ret(ProbeValue(ps, C10_ClaimedKeys, First(pos)).n)
        ELSE IF h.set /\ w.set /\ l.set THEN Ret(FMul(FMul(h.n, w.n), l.n))
        ELSE Ret(0)

\* C10 as claimed: the result is the first positive GrossVolume / NetVolume /
\* Volume of the quantity sets; only without one, Height x Width x Length of
\* the first matching key per axis; otherwise 0.0.
C10_AsClaimed ==
    (VolumeCalled /\ ~volume_out.out.raised) => volume_out.out = C10_Claimed(VolumeInput)

\* the chain as amended: TotalSurfaceArea is the fourth key (scaled by 0.2
\* when given as {'value': n}), a non-numeric {'value': x} raises where it is
\* read, and an axis takes the first numeric value under a matching key
C10_Keys == << "GrossVolume", "NetVolume", "Volume", "TotalSurfaceArea" >>
C10_Axis(ps, axis) ==
    LET nums == { a \in AxisEntries(ps, axis) : IsNumber(EntryValue(ps, a)) } IN
    IF nums = {} THEN None ELSE Some(EntryValue(ps, First(nums)).n)
C10_AxisRaises(ps, axis) ==
    \E b \in AxisEntries(ps, axis) :
        /\ EntryValue(ps, b).kind = "dictbad"
        /\ ~\E a \in AxisEntries(ps, axis) : IsNumber(EntryValue(ps, a)) /\ Before(a, b)
C10_Amended(ps) ==
    LET decisive == { a \in QuantityProbes(ps, C10_Keys) :
                        \/ ProbePositive(ps, C10_Keys, a)
                        \/ ProbeValue(ps, C10_Keys, a).kind = "dictbad" }
        h == C10_Axis(ps, "Height")
        w == C10_Axis(ps, "Width")
        l == C10_Axis(ps, "Length")
    IN  IF decisive # {}
        THEN LET a == First(decisive)
                 value == ProbeValue(ps, C10_Keys, a)
             IN  IF value.kind = "dictbad" THEN Raise
                 ELSE IF value.kind = "dict" /\ C10_Keys[a[2]] = "TotalSurfaceArea"
                      THEN Ret((value.n * 2) \div 10)
                      ELSE Ret(value.n)
        ELSE IF \E axis \in {"Height", "Width", "Length"} : C10_AxisRaises(ps, axis)
             THEN Raise
        ELSE IF h.set /\ w.set /\ l.set /\ h.n # 0 /\ w.n # 0 /\ l.n # 0
             THEN Ret(FMul(FMul(h.n, w.n), l.n))
             ELSE Ret(0)

\* C10 (amended): first success wins over GrossVolume, NetVolume, Volume,
\* TotalSurfaceArea in the quantity sets, then Height x Width x Length of the
\* first numeric value per axis, then 0.0; a non-numeric {'value': x} read on
\* the way raises.
C10_Chain == VolumeCalled => volume_out.out = C10_Amended(VolumeInput)

\* C10 witness: a quantity set whose GrossVolume is not positive is passed
\* over and the product of the three dimensions (2 x 5 x 3) is returned
C10_Witness ==
    /\ VolumeCalled
    /\ volume_out.out = Ret(30)
    /\ \E g \in DOMAIN VolumeInput :
           /\ IsQuantitySet(VolumeInput[g].name)
           /\ HasKey(VolumeInput[g].props, "GrossVolume")

\* the quantity-set entry that decides the scan: the first one, in scanning
\* order, that is a positive number
C11_Matched(ps) ==
    { a \in QuantityProbes(ps, VolumeKeys) :
        /\ ProbePositive(ps, VolumeKeys, a)
        /\ \A b \in QuantityProbes(ps, VolumeKeys) :
               Before(b, a) =>
                   /\ ~ProbePositive(ps, VolumeKeys, b)
                   /\ ProbeValue(ps, VolumeKeys, b).kind # "dictbad" }

\* C11: when the key that decides the result contains "SurfaceArea", the
\* returned volume is the area times the thickness 0.2, for a bare number
\* as for a {'value': n} pair.
C11_AreaScaled ==
    VolumeCalled =>
        \A a \in C11_Matched(VolumeInput) :
            Contains(VolumeKeys[a[2]], "SurfaceArea") =>
                volume_out.out =
                    Ret((ProbeValue(VolumeInput, VolumeKeys, a).n * 2) \div 10)

-----------------------------------------------------------------------------
(* Bundled revision, src/src/database_reader.py: OkobaudatAPIReader,       *)
(* _transform_okobaudat_to_kbob_format.                                    *)
(*                                                                         *)
(* A raw EPD record is reduced to what the function reads: whether an      *)
(* exchange with referenceFlow exists, its flowProperties and              *)
(* materialProperties, and the A1-A3 values of the LCIA results.  Impact   *)
(* values and conversion factors are counted in thousandths, densities and *)
(* grammages in whole units.                                               *)

CoreIdle ==
    /\ HAS_ELEMENT_UTIL = TRUE
    /\ materials = [e \in Elements |-> NoMaterial]
    /\ psets = [e \in Elements |-> <<>>]
    /\ data = <<>>
    /\ mapping = <<>>
    /\ pc = "idle"
    /\ idx = 0
    /\ results = <<>>
    /\ detailed = <<>>
    /\ detailed_results = <<>>
    /\ returned = <<>>
    /\ volume_out = NotCalled
    /\ names_out = <<>>
    /\ counts_out = <<>>
    /\ elements_out = <<>>

\* str.lower() on the unit spellings of the model
Lower(text) ==
    CASE text = "M3" -> "m3"
      [] text = "KG" -> "kg"
      [] OTHER -> text

\* "m^2" and "m^3" stand for the spellings with a superscript digit
AreaUnits == {"qm", "m2", "m^2", "square meter", "square metre"}
VolumeUnits == {"m3", "m^3", "cubic meter", "cubic metre"}
MassUnits == {"kg", "kilogram"}

\* a / b on floats, for b > 0
Quot(a, b) == IF a >= 0 THEN a \div b ELSE 0 - ((0 - a) \div b)

\* the impact left as it is, whatever the factor
TimesFactor_identity(gwp, factor) == gwp

\* gwp * conversion_factor_to_kg, the factor counted in thousandths
TimesFactor(gwp, factor) ==
    IF gwp * factor >= 0 THEN (gwp * factor) \div 1000
    ELSE 0 - ((0 - gwp * factor) \div 1000)

\* the loop over flow_props: the last property flagged referenceFlowProperty
\* and the meanValue of the last property named mass
RECURSIVE FlowLoop(_, _, _, _)
FlowLoop(flow_props, i, ref_prop, mass_value) ==
    IF i > Len(flow_props) THEN [ref_prop |-> ref_prop, mass_value |-> mass_value]
    ELSE LET prop == flow_props[i] IN
         FlowLoop(flow_props, i + 1,
                  IF prop.referenceFlowProperty THEN <<prop>> ELSE ref_prop,
                  IF prop.mass THEN <<prop.meanValue>> ELSE mass_value)

\* try: x = float(prop_value) except (ValueError, TypeError): pass
ParseInto(current, prop_value) ==
    IF prop_value.kind = "num" THEN Some(prop_value.n) ELSE current

\* the loop over materialProperties: density, grammage, conversion factor
RECURSIVE MaterialPropsLoop(_, _, _)
MaterialPropsLoop(material_props, i, acc) ==
    IF i > Len(material_props) THEN acc
    ELSE LET prop == material_props[i] IN
         MaterialPropsLoop(material_props, i + 1,
            IF Contains(prop.name, "density") \/ Contains(prop.name, "rohdichte")
            THEN [acc EXCEPT !.density = ParseInto(acc.density, prop.value)]
            ELSE IF Contains(prop.name, "grammage")
            THEN [acc EXCEPT !.grammage = ParseInto(acc.grammage, prop.value)]
            ELSE IF Contains(prop.name, "conversion factor to 1 kg")
            THEN [acc EXCEPT !.conversion_factor_to_kg =
                                 ParseInto(acc.conversion_factor_to_kg, prop.value)]
            ELSE acc)

\* the loop over the LCIA results: the A1-A3 value of each GWP-total result,
\* stopping at the first one that leaves gwp > 0
RECURSIVE GwpLoop(_, _, _)
GwpLoop(results_list, i, gwp) ==
    IF i > Len(results_list) THEN gwp
    ELSE LET result == results_list[i] IN
         IF result.method = "gwp-total"
         THEN LET g == IF result.value.kind = "num" THEN result.value.n ELSE gwp IN
              IF g > 0 THEN g ELSE GwpLoop(results_list, i + 1, g)
         ELSE GwpLoop(results_list, i + 1, gwp)

\* the outcome of a normalisation: the record built, or an exception
Canonical(density, carbon_per_unit, declared_unit, original_gwp, note, grammage, factor) ==
    [raised |-> FALSE,
     density |-> IF density.set THEN density.n ELSE 0,
     carbon_per_unit |-> carbon_per_unit,
     unit |-> "kg CO2-eq/kg",
     declared_unit |-> declared_unit,
     original_gwp |-> original_gwp,
     conversion_note |-> note,
     grammage |-> IF grammage.set THEN grammage.n ELSE 0,
     conversion_factor_to_kg |-> IF factor.set THEN factor.n ELSE 1000]

TransformRaised ==
    [raised |-> TRUE, density |-> 0, carbon_per_unit |-> 0, unit |-> "",
     declared_unit |-> "", original_gwp |-> 0, conversion_note |-> "",
     grammage |-> 0, conversion_factor_to_kg |-> 0]

\* the unit handling at the end of the function
ConvertUnit(declared_unit, gwp, density, grammage, factor) ==
    IF Lower(declared_unit) \in AreaUnits
    THEN IF grammage.set /\ grammage.n > 0 /\ gwp > 0
         THEN Canonical(density, Quot(gwp, grammage.n), declared_unit, gwp,
                        "converted using grammage", grammage, factor)
         ELSE Canonical(density, gwp, declared_unit, gwp,
                        "conversion requires grammage", grammage, factor)
    ELSE IF Lower(declared_unit) \in VolumeUnits
    THEN IF density.set /\ density.n > 0 /\ gwp > 0
         THEN Canonical(density, Quot(gwp, density.n), declared_unit, gwp,
                        "converted using density", grammage, factor)
         ELSE Canonical(density, gwp, declared_unit, gwp,
                        "conversion requires density", grammage, factor)
    ELSE IF Lower(declared_unit) \in MassUnits
    THEN IF factor.set /\ factor.n # 0 /\ factor.n < 10
         THEN Canonical(density, TimesFactor(gwp, factor.n), declared_unit, gwp,
                        "converted using conversion factor", grammage, factor)
         ELSE Canonical(density, gwp, declared_unit, gwp,
                        "already in kg", grammage, factor)
    ELSE Canonical(density, gwp, declared_unit, gwp, "unknown unit", grammage, factor)

_transform_okobaudat_to_kbob_format(epd) ==
    LET gwp == GwpLoop(epd.LCIAResults, 1, 0)
        NoProps == [density |-> None, grammage |-> None, conversion_factor_to_kg |-> None]
    IN
    IF ~epd.reference
    THEN ConvertUnit("kg", gwp, None, None, None)
    ELSE
      LET flow_props == epd.flowProperties
          found == FlowLoop(flow_props, 1, <<>>, <<>>)
          ref_prop == IF found.ref_prop # <<>> THEN found.ref_prop[1]
                      ELSE IF flow_props # <<>> THEN flow_props[1]
                      ELSE [referenceUnit |-> "kg"]
          declared_unit == IF flow_props # <<>> THEN ref_prop.referenceUnit ELSE "kg"
          props == MaterialPropsLoop(epd.materialProperties, 1, NoProps)
      IN
      \* mass_value is bound only inside `if flow_props and isinstance(...)`
      IF flow_props = <<>> THEN TransformRaised
      ELSE IF found.mass_value # <<>> /\ found.mass_value[1].kind = "str"
      THEN TransformRaised      \* 'abc' > 0
      ELSE LET mass_value == IF found.mass_value = <<>> THEN 0 ELSE found.mass_value[1].n
               density ==
                   IF /\ mass_value > 0
                      /\ Lower(declared_unit) \in VolumeUnits
                      /\ (~props.density.set \/ props.density.n = 0)
                   THEN Some(mass_value) ELSE props.density
           IN  ConvertUnit(declared_unit, gwp, density, props.grammage,
                           props.conversion_factor_to_kg)

\* every sequence over S of length at most n
SeqsUpTo(S, n) == UNION { [1 .. k -> S] : k \in 0 .. n }

FlowProperty(ref, unit, mean, mass) ==
    [referenceFlowProperty |-> ref, referenceUnit |-> unit, meanValue |-> mean,
     mass |-> mass]
MaterialProperty(name, value) == [name |-> name, value |-> value]
LCIAResult(method, value) == [method |-> method, value |-> value]

\* the raw records of the model
FlowProperties ==
    { FlowProperty(TRUE, "kg", Num(1), FALSE),
      FlowProperty(TRUE, "M3", Num(1), FALSE),
      FlowProperty(TRUE, "m2", Num(1), FALSE),
      FlowProperty(TRUE, "pcs", Num(1), FALSE),
      FlowProperty(FALSE, "kg", Num(200), TRUE),
      FlowProperty(FALSE, "kg", Str, TRUE) }
MaterialProperties ==
    { MaterialProperty("gross density", Num(300)),
      MaterialProperty("gross density", Str),
      MaterialProperty("gross density", Num(0)),
      MaterialProperty("grammage", Num(2)),
      MaterialProperty("conversion factor to 1 kg", Num(4)),
      MaterialProperty("conversion factor to 1 kg", Num(0)),
      MaterialProperty("conversion factor to 1 kg", Num(500)) }
LCIAResults ==
    { LCIAResult("gwp-total", Num(600)),
      LCIAResult("gwp-total", Num(-600)),
      LCIAResult("gwp-total", Str),
      LCIAResult("acidification", Num(9000)) }

InitNormalize ==
    /\ CoreIdle
    /\ \E reference \in BOOLEAN,
          flow \in SeqsUpTo(FlowProperties, 2),
          props \in SeqsUpTo(MaterialProperties, MaxProps),
          lcia \in SeqsUpTo(LCIAResults, 2) :
          \* the properties are those of the reference exchange
          /\ ~reference => (flow = <<>> /\ props = <<>>)
          /\ epd_data = [reference |-> reference, flowProperties |-> flow,
                         materialProperties |-> props, LCIAResults |-> lcia]
    /\ canon_out = <<>>
    /\ ReaderIdle
    /\ KbobIdle /\ OpIdle

Transform ==
    /\ canon_out' = << _transform_okobaudat_to_kbob_format(epd_data) >>
    /\ UNCHANGED <<core, readerVars, kbobVars, opVars, epd_data>>

NextNormalize == Transform

SpecNormalize == InitNormalize /\ [][NextNormalize]_vars

-----------------------------------------------------------------------------
(* Claims about the Oekobaudat normaliser (SpecNormalize) *)

Transformed == canon_out # <<>> /\ ~canon_out[1].raised

\* the material properties of the raw record carrying a name
C12_Has(name) ==
    \E i \in DOMAIN epd_data.materialProperties :
        Contains(epd_data.materialProperties[i].name, name)

\* C12: a record declared per m2 without grammage, or per m3 without
\* density, is normalised to carbon_per_unit 0: the raw per-m2 / per-m3
\* value is not emitted as a per-kilogram value.
C12_UnconvertibleIsZero ==
    Transformed =>
        LET out == canon_out[1] IN
        \/ /\ Lower(out.declared_unit) \in AreaUnits
           /\ ~C12_Has("grammage")
        \/ /\ Lower(out.declared_unit) \in VolumeUnits
           /\ out.density = 0
        => out.carbon_per_unit = 0

\* C13: a record declared per m3 with a known density d > 0 is normalised
\* to raw impact / d, whatever the raw impact: positive, zero or negative.
C13_VolumetricDivided ==
    Transformed =>
        LET out == canon_out[1] IN
        (Lower(out.declared_unit) \in VolumeUnits /\ out.density > 0)
            => out.carbon_per_unit = Quot(out.original_gwp, out.density)

\* the conversion factor to 1 kg the raw record carries: its last numeric
\* value, None when it carries none
C14_Factor ==
    LET mp == epd_data.materialProperties
        at == { i \in DOMAIN mp :
                  /\ Contains(mp[i].name, "conversion factor to 1 kg")
                  /\ mp[i].value.kind = "num" }
    IN  IF at = {} THEN None
        ELSE Some(mp[CHOOSE i \in at : \A j \in at : j <= i].value.n)

\* raw impact x f, both in thousandths
C14_Times(g, f) ==
    IF g * f >= 0 THEN (g * f) \div 1000 ELSE 0 - ((0 - g * f) \div 1000)

\* C14 as claimed: for a record declared per kg, a conversion factor
\* f < 0.01 gives raw impact x f, and every other case the raw impact.
C14_AsClaimed ==
    Transformed =>
        LET out == canon_out[1] IN
        Lower(out.declared_unit) \in MassUnits =>
            out.carbon_per_unit =
                IF C14_Factor.set /\ C14_Factor.n < 10
                THEN C14_Times(out.original_gwp, C14_Factor.n)
                ELSE out.original_gwp

\* C14 (amended): for a record declared per kg, a conversion factor f with
\* f # 0 and f < 0.01 gives raw impact x f; a factor that is absent, not
\* numeric, zero or >= 0.01 gives the raw impact unchanged.
C14_KgFactor ==
    Transformed =>
        LET out == canon_out[1] IN
        Lower(out.declared_unit) \in MassUnits =>
            out.carbon_per_unit =
                IF C14_Factor.set /\ C14_Factor.n # 0 /\ C14_Factor.n < 10
                THEN C14_Times(out.original_gwp, C14_Factor.n)
                ELSE out.original_gwp

\* a record declared per kg with factor 0.004 and raw impact 0.6 has been
\* normalised to 0.002 (numbers in thousandths)
C14_Witness ==
    /\ Transformed
    /\ canon_out[1].declared_unit = "kg"
    /\ C14_Factor = Some(4)
    /\ canon_out[1].original_gwp = 600
    /\ canon_out[1].carbon_per_unit = 2

\* C15: a record whose declared unit is neither a mass, an area nor a
\* volume unit keeps its raw value for review (original_gwp) and does not
\* emit it as the per-kilogram impact carbon_per_unit.
C15_UnknownUnitNotEmitted ==
    Transformed =>
        LET out == canon_out[1] IN
        (Lower(out.declared_unit) \notin MassUnits \cup AreaUnits \cup VolumeUnits
            /\ out.original_gwp # 0)
            => out.carbon_per_unit # out.original_gwp

\* C16: normalisation never raises: _transform_okobaudat_to_kbob_format
\* returns a record for every raw record, also when the reference exchange
\* has no flowProperties or a property value is not numeric.
C16_NeverRaises == canon_out # <<>> => ~canon_out[1].raised

-----------------------------------------------------------------------------
(* Bundled revision, src/src/database_reader.py: OkobaudatAPIReader, the   *)
(* record memo (self.data) in front of the API.                            *)
(*                                                                         *)
(* A material id is the pair <<prefix, uuid>>.  The API answers a list     *)
(* request (by search query, "" for none) with the uuids it lists and a    *)
(* detail request (by uuid) with a raw EPD record; a request that fails    *)
(* is answered with {} by _make_request.  A stored record is wrapped as    *)
(* [kind, name, category, okobaudat_id, record], where `record` holds the  *)
(* numeric fields; the fields a summary record does not have are empty.    *)

Uuids == {"a", "b"}
MaterialId(uuid) == <<"OKOBAU_", uuid>>
MaterialIds == { MaterialId(u) : u \in Uuids } \cup { <<"KBOB_", "1">> }

\* the name the API reports for a data set
EpdName(uuid) == IF uuid = "a" THEN "Beton C25" ELSE "Stahlprofil"

\* _determine_category_from_classification without classification: by name
_determine_category_from_classification(name) ==
    CASE name = "Beton C25" -> "Concrete"
      [] name = "Stahlprofil" -> "Metal"
      [] OTHER -> "Other Materials"

\* the record load_materials stores for a listed data set
SummaryEntry(uuid) ==
    [kind |-> "summary", name |-> EpdName(uuid),
     category |-> _determine_category_from_classification(EpdName(uuid)),
     okobaudat_id |-> uuid,
     record |-> [raised |-> FALSE, density |-> 0, carbon_per_unit |-> 0,
                 unit |-> "kg CO2-eq/kg", declared_unit |-> "", original_gwp |-> 0,
                 conversion_note |-> "", grammage |-> 0,
                 conversion_factor_to_kg |-> 0]]

\* the record get_full_material_data stores: the normalised detail response
FullEntry(uuid, epd) ==
    [kind |-> "full", name |-> EpdName(uuid),
     category |-> _determine_category_from_classification(EpdName(uuid)),
     okobaudat_id |-> uuid,
     record |-> _transform_okobaudat_to_kbob_format(epd)]

NoEntry ==
    [kind |-> "none", name |-> "", category |-> "", okobaudat_id |-> "",
     record |-> TransformRaised]

\* what a call hands back: a record, {} ("empty"), a list of ids, nothing,
\* or an exception; `via` is the return statement taken
Outcome(op, id, via, t, entry, ids) ==
    [op |-> op, id |-> id, via |-> via, t |-> t, entry |-> entry, ids |-> ids]

\* self.data.get(material_id, {})
DataGet(d, material_id) ==
    IF material_id \in DOMAIN d
    THEN [t |-> "record", entry |-> d[material_id]]
    ELSE [t |-> "empty", entry |-> NoEntry]

\* position of a category in the sort order of materials_list
CategoryRank(category) ==
    CASE category = "Concrete" -> 1
      [] category = "Metal" -> 2
      [] OTHER -> 3

\* materials_list: (id, name, category) of every record, sorted by category
RECURSIVE SortedIds(_, _)
SortedIds(d, ids) ==
    IF ids = {} THEN <<>>
    ELSE LET first == CHOOSE i \in ids :
                         \A j \in ids : CategoryRank(d[i].category)
                                            <= CategoryRank(d[j].category)
         IN  << <<first, d[first].name, d[first].category>> >>
                 \o SortedIds(d, ids \ {first})

\* load_materials on the reader state st = [data, list, cached]
load_materials(st, search_query) ==
    LET response == remote.list[search_query] IN
    IF ~response.ok THEN st
    ELSE LET d == [id \in { MaterialId(response.uuids[i]) : i \in DOMAIN response.uuids }
                      |-> SummaryEntry(id[2])]
         IN  [data |-> d, list |-> SortedIds(d, DOMAIN d), cached |-> TRUE]

\* the memo test of get_full_material_data: any stored record counts
IsMemoized_any(d, material_id) == material_id \in DOMAIN d

\* the memo test of get_full_material_data
IsMemoized(d, material_id) ==
    material_id \in DOMAIN d /\ d[material_id].record.carbon_per_unit > 0

\* get_full_material_data on the reader state st: the state left and the
\* outcome
get_full_material_data(st, material_id) ==
    IF material_id[1] # "OKOBAU_"
    THEN [st |-> st, via |-> "other"] @@ DataGet(st.data, material_id)
    ELSE IF IsMemoized(st.data, material_id)
    THEN [st |-> st, via |-> "memo", t |-> "record", entry |-> st.data[material_id]]
    ELSE LET okobau_id == material_id[2]
             epd == remote.detail[okobau_id]
         IN  IF epd.ok
             THEN LET full == FullEntry(okobau_id, epd.epd) IN
                  IF full.record.raised
                  THEN [st |-> st, via |-> "fetch", t |-> "raised", entry |-> NoEntry]
                  ELSE [st |-> [st EXCEPT !.data = (material_id :> full) @@ st.data],
                        via |-> "fetch", t |-> "record", entry |-> full]
             ELSE [st |-> st, via |-> "fallback"] @@ DataGet(st.data, material_id)

\* get_material_data: load_materials() first unless _cached
get_material_data_api(st, material_id) ==
    LET loaded == IF ~st.cached THEN load_materials(st, "") ELSE st IN
    IF material_id[1] = "OKOBAU_"
    THEN get_full_material_data(loaded, material_id)
    ELSE [st |-> loaded, via |-> "other"] @@ DataGet(loaded.data, material_id)

ReaderState == [data |-> reader_data, list |-> materials_list, cached |-> _cached]

SetReader(st) ==
    /\ reader_data' = st.data
    /\ materials_list' = st.list
    /\ _cached' = st.cached

LoadMaterials ==
    /\ SetReader(load_materials(ReaderState, ""))
    /\ reader_out' = Outcome("load_materials", <<"", "">>, "load", "none", NoEntry, {})
    /\ UNCHANGED <<core, normVars, kbobVars, opVars, remote>>

\* search_materials(query): load_materials(query, 50), then the ids held
SearchMaterials(query) ==
    LET st == load_materials(ReaderState, query) IN
    /\ SetReader(st)
    /\ reader_out' = Outcome("search_materials", <<"", "">>, "load", "list", NoEntry,
                             DOMAIN st.data)
    /\ UNCHANGED <<core, normVars, kbobVars, opVars, remote>>

GetFullMaterialData(material_id) ==
    LET r == get_full_material_data(ReaderState, material_id) IN
    /\ SetReader(r.st)
    /\ reader_out' = Outcome("get_full_material_data", material_id, r.via, r.t,
                             r.entry, {})
    /\ UNCHANGED <<core, normVars, kbobVars, opVars, remote>>

GetMaterialData(material_id) ==
    LET r == get_material_data_api(ReaderState, material_id) IN
    /\ SetReader(r.st)
    /\ reader_out' = Outcome("get_material_data", material_id, r.via, r.t,
                             r.entry, {})
    /\ UNCHANGED <<core, normVars, kbobVars, opVars, remote>>

\* raw EPD records the API holds
Epd(unit, props, gwp) ==
    [reference |-> TRUE,
     flowProperties |-> << FlowProperty(TRUE, unit, Num(1), FALSE) >>,
     materialProperties |-> props,
     LCIAResults |-> << LCIAResult("gwp-total", Num(gwp)) >>]

Answered(epd) == [ok |-> TRUE, epd |-> epd]
NoResponse == [ok |-> FALSE, epd |-> Epd("kg", <<>>, 0)]

DetailResponses ==
    { NoResponse,
      Answered(Epd("kg", <<>>, 600)),
      Answered(Epd("M3", << MaterialProperty("gross density", Num(300)) >>, 600)),
      Answered(Epd("kg", <<>>, -600)),
      Answered([Epd("kg", <<>>, 600) EXCEPT !.flowProperties = <<>>]) }

Listed(uuids) == [ok |-> TRUE, uuids |-> uuids]
NotListed == [ok |-> FALSE, uuids |-> <<>>]

ListResponses == { NotListed, Listed(<<>>), Listed(<<"a">>), Listed(<<"b", "a">>) }

SearchQueries == {"Stahl"}

InitReader ==
    /\ CoreIdle
    /\ NormIdle
    /\ KbobIdle /\ OpIdle
    /\ \E list \in [SearchQueries \cup {""} -> ListResponses],
          detail \in [Uuids -> DetailResponses] :
          remote = [list |-> list, detail |-> detail]
    /\ reader_data = <<>>
    /\ materials_list = <<>>
    /\ _cached = FALSE
    /\ reader_out = <<>>

NextReader ==
    \/ LoadMaterials
    \/ \E query \in SearchQueries : SearchMaterials(query)
    \/ \E material_id \in MaterialIds : GetFullMaterialData(material_id)
    \/ \E material_id \in MaterialIds : GetMaterialData(material_id)

SpecReader == InitReader /\ [][NextReader]_vars

-----------------------------------------------------------------------------
(* Claims about the OkobaudatAPIReader (SpecReader) *)

\* what a lookup of a data set the API holds has to hand back, whatever
\* the memo holds: the normalised detail response
C17_Expected(uuid) ==
    LET full == FullEntry(uuid, remote.detail[uuid].epd) IN
    IF full.record.raised THEN [t |-> "raised", entry |-> NoEntry]
    ELSE [t |-> "record", entry |-> full]

\* C17: the memo is advisory.  For a data set the API answers for,
\* get_material_data and get_full_material_data hand back the normalised
\* detail response, whether it was taken from the memo or fetched and
\* normalised again, after any sequence of load_materials, search_materials
\* and lookups; every record the memo serves is that same record.
C17_MemoAdvisory ==
    /\ \A id \in DOMAIN reader_data :
           IsMemoized(reader_data, id) =>
               /\ remote.detail[id[2]].ok
               /\ reader_data[id] = FullEntry(id[2], remote.detail[id[2]].epd)
    /\ (/\ reader_out # <<>>
        /\ reader_out.op \in {"get_material_data", "get_full_material_data"}
        /\ reader_out.id[1] = "OKOBAU_"
        /\ remote.detail[reader_out.id[2]].ok)
       => /\ reader_out.t = C17_Expected(reader_out.id[2]).t
          /\ reader_out.entry = C17_Expected(reader_out.id[2]).entry

\* a lookup answered from the memo, with the record normalised from a
\* per-m3 detail response (0.6 / 300 = 0.002)
C17_Witness ==
    /\ reader_out # <<>>
    /\ reader_out.op = "get_material_data"
    /\ reader_out.via = "memo"
    /\ reader_out.entry.record.carbon_per_unit = 2
    /\ _cached

-----------------------------------------------------------------------------
(* Bundled revision: the two KBOB (Schema A) readers,                      *)
(* KBOBDatabaseReader.load_from_json in src/src/database_reader.py and     *)
(* KBOBReader._load_kbob_v6_format in src/src/ifclca_core/db_reader.py.    *)
(*                                                                         *)
(* A KBOB_ID is kept as its text, whether float() accepts it, and the      *)
(* whole number in front of its first '.' (None when that is no number);   *)
(* GWP is counted in thousandths.                                          *)

MaxItems == 2

IdNum(text, head) ==
    [kind |-> "num", text |-> text, float_ok |-> TRUE, head |-> Some(head)]
IdStr(text, float_ok, head) ==
    [kind |-> "str", text |-> text, float_ok |-> float_ok, head |-> head]
NoId == [kind |-> "none", text |-> "", float_ok |-> FALSE, head |-> None]

Dash == [kind |-> "dash", n |-> 0]          \* the '-' of an empty kg/unit cell
NoRange == [given |-> FALSE, low |-> Num(0), high |-> Num(0)]
Range2(low, high) == [given |-> TRUE, low |-> low, high |-> high]

Item(id, name, gwp, kg_unit, range) ==
    [KBOB_ID |-> id, Name |-> name, GWP |-> gwp, kg_unit |-> kg_unit, range |-> range]

\* the category of an id whose whole part is n (the if/elif chain on ranges)
CategoryOf(n) ==
    CASE n < 1 -> "Foundation/Excavation"
      [] n = 1 -> "Concrete"
      [] n = 2 -> "Masonry"
      [] n = 3 -> "Mineral/Stone"
      [] n = 4 -> "Mortar/Plaster"
      [] n = 5 -> "Facade/Windows"
      [] n = 6 -> "Metal"
      [] n = 7 -> "Wood"
      [] n = 8 -> "Sealants/Adhesives"
      [] n = 9 -> "Membranes/Foils"
      [] n = 10 -> "Insulation"
      [] n = 11 -> "Flooring"
      [] n = 12 -> "Doors"
      [] n = 13 -> "Plastics/Pipes"
      [] n = 14 -> "Coatings"
      [] n >= 15 /\ n < 21 -> "Other Materials"
      [] OTHER -> "Kitchen/Interior"

\* KBOBDatabaseReader.determine_category
determine_category(name, kbob_id) == CategoryOf(kbob_id)

\* load_from_json: kbob_id_float, with 99 when nothing parses
kbob_id_float(kbob_id) ==
    IF kbob_id.float_ok THEN kbob_id.head.n
    ELSE IF kbob_id.head.set THEN kbob_id.head.n
    ELSE 99

\* load_from_json: density from kg/unit, else the mean of min and max
\* density; [t |-> "raise"] when the mean is taken of two strings
DensityOfItem(item) ==
    LET density == IF item.kg_unit.kind = "num" THEN Some(item.kg_unit.n) ELSE None IN
    IF ~density.set /\ item.range.given
    THEN IF item.range.low.kind = "num" /\ item.range.high.kind = "num"
         THEN [t |-> "ok", o |-> Some((item.range.low.n + item.range.high.n) \div 2)]
         ELSE [t |-> "raise", o |-> None]
    ELSE [t |-> "ok", o |-> density]

\* load_from_json: the record stored for one item
KbobRecord(item) ==
    [name |-> item.Name,
     category |-> determine_category(item.Name, kbob_id_float(item.KBOB_ID)),
     density |-> DensityOfItem(item).o,
     carbon_per_unit |-> IF item.GWP # 0 THEN item.GWP ELSE 0,
     unit |-> "kg CO2-eq/kg",
     kbob_id |-> item.KBOB_ID.text]

\* load_from_json: the loop over the items; an item without KBOB_ID or one
\* that raises is passed over
RECURSIVE LoadItems(_, _, _)
LoadItems(items, i, d) ==
    IF i > Len(items) THEN d
    ELSE LET item == items[i] IN
         IF item.KBOB_ID.kind = "none" \/ DensityOfItem(item).t = "raise"
         THEN LoadItems(items, i + 1, d)
         ELSE LoadItems(items, i + 1,
                        (<<"KBOB_", item.KBOB_ID.text>> :> KbobRecord(item)) @@ d)

\* load_from_json: materials_list, sorted by category and then name
CategoryOrder ==
    <<"Concrete", "Foundation/Excavation", "Kitchen/Interior", "Metal", "Other Materials">>
NameOrder == <<"Beton", "Test Material 1", "X">>
RankIn(order, s) == CHOOSE i \in 1..Len(order) : order[i] = s
ListKeyLess(d, a, b) ==
    LET ca == RankIn(CategoryOrder, d[a].category)
        cb == RankIn(CategoryOrder, d[b].category)
    IN  \/ ca < cb
        \/ ca = cb /\ RankIn(NameOrder, d[a].name) < RankIn(NameOrder, d[b].name)
\* the orders list.sort can leave: keys ascending (entries with equal keys
\* keep dictionary order, which the function d does not record)
SortedLists(d) ==
    {s \in Orderings(DOMAIN d) :
        \A i \in 1..Len(s), j \in 1..Len(s) : i < j => ~ListKeyLess(d, s[j], s[i])}

load_from_json(items) == LoadItems(items, 1, <<>>)

\* KBOBReader._determine_category
_determine_category(name, kbob_id) ==
    CategoryOf(IF kbob_id.head.set THEN kbob_id.head.n ELSE 99)

\* _extract_kbob_data: the name checks that reject an entry
NameRejected(name) == name \in {"", "X"}

\* _extract_kbob_data: density, 0 when nothing usable is given
_extract_density(item) ==
    LET density == IF item.kg_unit.kind = "num" THEN item.kg_unit.n ELSE 0 IN
    IF density = 0 /\ item.range.given
    THEN IF item.range.low.kind = "num" /\ item.range.high.kind = "num"
         THEN (item.range.low.n + item.range.high.n) \div 2
         ELSE 0
    ELSE density

\* gwp / 1000 on thousandths (the model's values are whole multiples)
GwpKg(gwp) == Quot(gwp, 1000)

_extract_kbob_data(item) ==
    IF NameRejected(item.Name) THEN None
    ELSE Some([id |-> item.KBOB_ID.text,
               name |-> item.Name,
               category |-> _determine_category(item.Name, item.KBOB_ID),
               gwp |-> IF item.GWP # 0 THEN GwpKg(item.GWP) ELSE 0,
               carbon_per_unit |-> IF item.GWP # 0 THEN GwpKg(item.GWP) ELSE 0,
               unit |-> "kg",
               density |-> _extract_density(item)])

RECURSIVE LoadV6(_, _, _)
LoadV6(items, i, db) ==
    IF i > Len(items) THEN db
    ELSE LET material_data == _extract_kbob_data(items[i]) IN
         IF material_data.set
         THEN LoadV6(items, i + 1,
                     (<<"KBOB_", material_data.n.id>> :> material_data.n) @@ db)
         ELSE LoadV6(items, i + 1, db)

_load_kbob_v6_format(items) == LoadV6(items, 1, <<>>)

\* KBOBDatabaseReader.load_from_json(filepath)
LoadFromJson ==
    /\ kbob_data' = load_from_json(raw_data)
    /\ kbob_list' \in SortedLists(load_from_json(raw_data))
    /\ UNCHANGED <<core, normVars, readerVars, opVars, raw_data, kbob_db>>

\* KBOBReader._load_kbob_v6_format(raw_data)
LoadKbobV6 ==
    /\ kbob_db' = _load_kbob_v6_format(raw_data)
    /\ UNCHANGED <<core, normVars, readerVars, opVars, raw_data, kbob_data, kbob_list>>

KbobIds ==
    {IdNum("99.001", 99), IdNum("16", 16), IdNum("1.999", 1), IdNum("0.5", 0),
     IdNum("6", 6), IdStr("01.002.01", FALSE, Some(1)), IdStr("abc", FALSE, None), NoId}
KbobItems ==
    {Item(id, "Test Material 1", 2000, Dash, NoRange) : id \in KbobIds}
    \cup {Item(IdNum("99.001", 99), "Beton", -3000, Num(2400), NoRange),
          Item(IdNum("16", 16), "Beton", 0, Dash, Range2(Num(1000), Num(3000))),
          Item(IdNum("6", 6), "X", 2000, Dash, NoRange),
          Item(IdStr("abc", FALSE, None), "Beton", 5000, Dash, Range2(Str, Str))}

InitKBOB ==
    /\ CoreIdle /\ NormIdle /\ ReaderIdle /\ OpIdle
    /\ raw_data \in SeqsUpTo(KbobItems, MaxItems)
    /\ kbob_data = <<>> /\ kbob_list = <<>> /\ kbob_db = <<>>

NextKBOB == LoadFromJson \/ LoadKbobV6

SpecKBOB == InitKBOB /\ [][NextKBOB]_vars

\* the items of the file whose identifier no other item of the file carries
SoleItems ==
    {i \in 1..Len(raw_data) :
        \A j \in 1..Len(raw_data) : raw_data[j].KBOB_ID.text = raw_data[i].KBOB_ID.text => j = i}
KbobKey(item) == <<"KBOB_", item.KBOB_ID.text>>

\* C18: for a KBOB item with GWP field g, both readers store g itself as the
\* impact per kilogram (carbon_per_unit, and gwp where the reader has it),
\* so the two readers agree on every item they both load.
C18_GwpUnscaled ==
    \A i \in SoleItems :
        LET item == raw_data[i] IN
        (KbobKey(item) \in DOMAIN kbob_data /\ KbobKey(item) \in DOMAIN kbob_db) =>
            /\ kbob_data[KbobKey(item)].carbon_per_unit = item.GWP
            /\ kbob_db[KbobKey(item)].carbon_per_unit = item.GWP
            /\ kbob_db[KbobKey(item)].gwp = item.GWP
            /\ kbob_db[KbobKey(item)].carbon_per_unit = kbob_data[KbobKey(item)].carbon_per_unit

\* an identifier that is 99.001, or a string holding no number
C19_Defaulted(item) ==
    \/ item.KBOB_ID.text = "99.001"
    \/ item.KBOB_ID.kind = "str" /\ ~item.KBOB_ID.float_ok /\ ~item.KBOB_ID.head.set

\* C19: an item whose identifier is 99.001, or whose identifier holds no
\* number and so falls back to 99, is loaded with category "Other Materials".
C19_OtherMaterials ==
    \A i \in SoleItems :
        LET item == raw_data[i] IN
        C19_Defaulted(item) =>
            /\ KbobKey(item) \in DOMAIN kbob_data =>
                   kbob_data[KbobKey(item)].category = "Other Materials"
            /\ KbobKey(item) \in DOMAIN kbob_db =>
                   kbob_db[KbobKey(item)].category = "Other Materials"

-----------------------------------------------------------------------------
(* Bundled revision: IFCLCA_OT_RunAnalysis.execute in src/src/operators.py *)
(* (the root revision has the same two guards).  run_lca_analysis and      *)
(* format_results are taken by their outcome: a results text with a total, *)
(* or an exception.                                                        *)

MaxMappings == 2

Mapping(is_mapped) ==
    [ifc_material_name |-> "m", database_id |-> "KBOB_1", is_mapped |-> is_mapped]

Cancelled(message) == [ret |-> "CANCELLED", level |-> "ERROR", message |-> message]
Finished(message) == [ret |-> "FINISHED", level |-> "INFO", message |-> message]

\* the fields execute can write
PropsState ==
    [results_text |-> results_text, results_json |-> results_json,
     total_carbon |-> total_carbon, show_results |-> show_results]

\* sum(1 for m in props.material_mappings if m.is_mapped)
mapped_count_all(mappings) == Len(mappings)
mapped_count(mappings) ==
    Cardinality({i \in 1..Len(mappings) : mappings[i].is_mapped})

\* what the analysis can come to: results, or an exception
AnalysisOutcomes ==
    {[ok |-> TRUE, text |-> "new", total |-> 7], [ok |-> FALSE, text |-> "", total |-> 0]}

\* execute(context): the report, the fields afterwards, and whether
\* run_lca_analysis was called
execute(loaded, file, mappings, dbtype, has_requests, props, outcome) ==
    IF ~loaded \/ file = "None"
    THEN [report |-> Cancelled("Please load an IFC file first"),
          props |-> props, called |-> FALSE]
    ELSE IF mapped_count(mappings) = 0
    THEN [report |-> Cancelled("Please map at least one material before running analysis"),
          props |-> props, called |-> FALSE]
    ELSE IF dbtype = "OKOBAUDAT_API" /\ ~has_requests
    THEN [report |-> Cancelled("The 'requests' module could not be loaded"),
          props |-> props, called |-> FALSE]
    ELSE IF dbtype \notin {"KBOB", "OKOBAUDAT_API"}
    THEN [report |-> Cancelled("Invalid database type"),
          props |-> props, called |-> FALSE]
    ELSE IF ~outcome.ok
    THEN [report |-> Cancelled("Analysis failed"), props |-> props, called |-> TRUE]
    ELSE [report |-> Finished("Analysis complete"),
          props |-> [results_text |-> outcome.text, results_json |-> outcome.text,
                     total_carbon |-> outcome.total, show_results |-> TRUE],
          called |-> TRUE]

\* bpy.ops.ifclca.run_analysis()
RunAnalysis ==
    \E outcome \in AnalysisOutcomes :
        LET r == execute(ifc_loaded, _ifc_file, material_mappings, database_type,
                         HAS_REQUESTS, PropsState, outcome)
        IN  /\ op_report' = r.report
            /\ analysis_called' = r.called
            /\ results_text' = r.props.results_text
            /\ results_json' = r.props.results_json
            /\ total_carbon' = r.props.total_carbon
            /\ show_results' = r.props.show_results
            /\ UNCHANGED <<core, normVars, readerVars, kbobVars, ifcopenshell, HAS_BONSAI,
                           IfcStore_file, ifc_file_path, ifc_loaded, _ifc_file,
                           material_mappings, database_type, HAS_REQUESTS, servers,
                           _web_server, _okobaudat_cache, material_database>>

\* the scene before the operator is invoked: fresh, or holding the results
\* of an earlier analysis
EarlierResults ==
    {[results_text |-> "", results_json |-> "", total_carbon |-> 0, show_results |-> FALSE],
     [results_text |-> "old", results_json |-> "old", total_carbon |-> 5, show_results |-> TRUE]}

InitOperator ==
    /\ CoreIdle /\ NormIdle /\ ReaderIdle /\ KbobIdle /\ WebIdle /\ CacheIdle
    /\ ifcopenshell = TRUE /\ HAS_BONSAI = FALSE /\ IfcStore_file = "None"
    /\ ifc_file_path = ""
    /\ ifc_loaded \in BOOLEAN
    /\ _ifc_file \in {"None", "model"}
    /\ material_mappings \in SeqsUpTo({Mapping(TRUE), Mapping(FALSE)}, MaxMappings)
    /\ database_type \in {"KBOB", "OKOBAUDAT_API", "OTHER"}
    /\ HAS_REQUESTS \in BOOLEAN
    /\ \E e \in EarlierResults :
        /\ results_text = e.results_text /\ results_json = e.results_json
        /\ total_carbon = e.total_carbon /\ show_results = e.show_results
    /\ op_report = <<>>
    /\ analysis_called = FALSE

NextOperator == RunAnalysis

SpecOperator == InitOperator /\ [][NextOperator]_vars

\* the two refused situations, and what a refusal leaves alone
C20_NoFile == ~ifc_loaded \/ _ifc_file = "None"
C20_NoMapping ==
    /\ ~C20_NoFile
    /\ \A i \in 1..Len(material_mappings) : ~material_mappings[i].is_mapped
C20_Kept ==
    /\ UNCHANGED <<results_text, total_carbon, show_results>>
    /\ ~analysis_called'
C20_Step ==
    /\ C20_NoFile =>
          /\ op_report'.ret = "CANCELLED"
          /\ op_report'.level = "ERROR"
          /\ op_report'.message = "Please load an IFC file first"
          /\ C20_Kept
    /\ C20_NoMapping =>
          /\ op_report'.ret = "CANCELLED"
          /\ op_report'.level = "ERROR"
          /\ op_report'.message = "Please map at least one material before running analysis"
          /\ C20_Kept

\* C20: execute is guarded.  Invoked with ifc_loaded false or no model held,
\* it returns CANCELLED reporting "Please load an IFC file first"; invoked
\* with a model loaded and no mapping entry that has is_mapped, it returns
\* CANCELLED reporting "Please map at least one material before running
\* analysis"; in both cases results_text, total_carbon and show_results keep
\* their values and run_lca_analysis is not called.
C20_Guarded == [][C20_Step]_vars

\* a refusal for want of a mapped entry, with two unmapped entries and the
\* results of an earlier analysis on the scene
C20_Witness ==
    /\ op_report # <<>>
    /\ op_report.message = "Please map at least one material before running analysis"
    /\ Len(material_mappings) = MaxMappings
    /\ results_text = "old" /\ total_carbon = 5 /\ show_results

-----------------------------------------------------------------------------
(* Root revision: run() called again on the same SimplifiedIfcLCAAnalysis  *)
(* object, after the caller has put another mapping on it.                 *)

\* run(): results = {} and detailed_results = {} at the start of every call
FreshResult_carried(previous) == previous
FreshResult(previous) == <<>>

\* analysis.mapping = {...}; analysis.run() on an object that has already
\* completed or aborted a run
RunAgain ==
    /\ pc \in {"done", "raised"}
    /\ \E x, y \in DbIds \cup {""} :
          mapping' = << <<"Concrete", x>>, <<"Steel", y>> >>
    /\ pc' = "run"
    /\ idx' = 1
    /\ results' = FreshResult(results)
    /\ detailed' = FreshResult(detailed)
    /\ UNCHANGED <<others, HAS_ELEMENT_UTIL, materials, psets, data, detailed_results,
                   returned, volume_out, names_out, counts_out, elements_out>>

\* one model with a wall that resolves and a wall whose quantity may be
\* unreadable, so that a run can complete and a later one can abort
InitRerun ==
    /\ InitRun
    /\ materials[1] = IfcMaterialLayerSet(<<"Concrete", "Steel">>)
    /\ psets[1] # <<>>
    /\ data["REC_2"] = Record(7, 3)

NextRerun == RunStart \/ RunMaterial \/ RunFinish \/ RunAgain

SpecRerun == InitRerun /\ [][NextRerun]_vars

\* the material names a run with the current mapping gets through: mapped,
\* with a record that holds a density and an impact
C21_Processed ==
    {mapping[i][1] : i \in {j \in 1..Len(mapping) :
        /\ mapping[j][2] # ""
        /\ mapping[j][2] \in DOMAIN data
        /\ data[mapping[j][2]].density # 0
        /\ data[mapping[j][2]].carbon_per_unit # 0}}
C21_Step ==
    /\ detailed_results' # detailed_results => (pc = "run" /\ pc' = "done")
    /\ (pc = "run" /\ pc' = "done") =>
          /\ DOMAIN detailed_results' = C21_Processed
          /\ \A i \in 1..Len(mapping) :
                mapping[i][1] \in C21_Processed =>
                    detailed_results'[mapping[i][1]].database_id = mapping[i][2]

\* C21: what get_detailed_results returns changes only in the step that
\* completes a run, and then it holds exactly the materials that run
\* processed under its own mapping; while a run is under way or after one
\* aborted it is still {} or the result of the last completed run.
C21_Atomic == [][C21_Step]_vars

\* a run aborted after it had built part of its result, on an object that
\* still shows the different result of an earlier completed run
C21_Witness ==
    /\ pc = "raised"
    /\ detailed # <<>>
    /\ detailed_results # <<>>
    /\ detailed_results # detailed

-----------------------------------------------------------------------------
(* Claims about the recursion of the bundled material resolver (SpecMaterials) *)

\* the calls of _extract_material_names_from_object one association costs:
\* the call itself and the calls its Usage branch makes
RECURSIVE ExtractCalls(_)
ExtractCalls(material) ==
    IF /\ material.kind \in {"IfcMaterialLayerSetUsage", "IfcMaterialProfileSetUsage"}
       /\ material.ref # <<>>
    THEN 1 + ExtractCalls(material.ref[1])
    ELSE 1

C22_IsUsage(material) ==
    material.kind \in {"IfcMaterialLayerSetUsage", "IfcMaterialProfileSetUsage"}
\* the names of a set's members, in order, unnamed members left out
C22_SetNames(set) == SelectSeq(set.members, LAMBDA n : n # "")

\* C22: resolving an association takes at most one recursive call (Usage to
\* Set); a Usage resolves to exactly the names of the set it refers to and
\* to nothing when it refers to none; an association with no name-bearing
\* leaf resolves to the empty list.
C22_UsageResolves ==
    \A e \in DOMAIN names_out :
        LET material == materials[e] IN
        /\ ExtractCalls(material) <= 2
        /\ (C22_IsUsage(material) /\ material.ref # <<>>) =>
              names_out[e] = C22_SetNames(material.ref[1])
        /\ (C22_IsUsage(material) /\ material.ref = <<>>) => names_out[e] = <<>>
        /\ C6_Named(material) = {} => names_out[e] = <<>>

\* a layer-set usage resolved to the two names of its layer set, and an
\* unnamed material resolved to nothing
C22_Witness ==
    \E e1, e2 \in DOMAIN names_out :
        /\ materials[e1].kind = "IfcMaterialLayerSetUsage"
        /\ ExtractCalls(materials[e1]) = 2
        /\ names_out[e1] = <<"Steel", "Concrete">>
        /\ materials[e2] = IfcMaterial("")
        /\ names_out[e2] = <<>>

-----------------------------------------------------------------------------
(* Claims about the density of a volumetric Oekobaudat record (SpecNormalize) *)

\* the density the raw record states: the last numeric value of a density
\* material property, None when there is none
C23_Density ==
    LET mp == epd_data.materialProperties
        at == { i \in DOMAIN mp :
                  Contains(mp[i].name, "density") /\ mp[i].value.kind = "num" }
    IN  IF at = {} THEN None
        ELSE Some(mp[CHOOSE i \in at : \A j \in at : j <= i].value.n)
\* the mean value of the last flow property named mass, None when there is none
C23_Mass ==
    LET fp == epd_data.flowProperties
        at == { i \in DOMAIN fp : fp[i].mass }
    IN  IF at = {} THEN None
        ELSE Some(fp[CHOOSE i \in at : \A j \in at : j <= i].meanValue.n)
C23_NoDensity == ~C23_Density.set \/ C23_Density.n = 0

\* C23: for a record declared per m3, a positive density property is the
\* density whatever the mass flow property says; with no density (absent or
\* 0) and a mass flow property m > 0, m is the density and the impact per
\* kilogram is the raw impact / m; for a record not declared per m3 the mass
\* flow property never changes the density.
C23_MassAsDensity ==
    Transformed =>
        LET out == canon_out[1] IN
        IF Lower(out.declared_unit) \in VolumeUnits
        THEN /\ (C23_Density.set /\ C23_Density.n > 0) => out.density = C23_Density.n
             /\ (C23_NoDensity /\ C23_Mass.set /\ C23_Mass.n > 0) =>
                   /\ out.density = C23_Mass.n
                   /\ out.carbon_per_unit = Quot(out.original_gwp, C23_Mass.n)
        ELSE out.density = (IF C23_Density.set THEN C23_Density.n ELSE 0)

\* the same without the statement about the impact: which value becomes the
\* density
C23_DensityChoice ==
    Transformed =>
        LET out == canon_out[1] IN
        IF Lower(out.declared_unit) \in VolumeUnits
        THEN /\ (C23_Density.set /\ C23_Density.n > 0) => out.density = C23_Density.n
             /\ (C23_NoDensity /\ C23_Mass.set /\ C23_Mass.n > 0) =>
                   out.density = C23_Mass.n
        ELSE out.density = (IF C23_Density.set THEN C23_Density.n ELSE 0)

-----------------------------------------------------------------------------
(* Claims about many-to-one mappings in the aggregation run (Spec) *)

\* the sum of f[k] over the keys k of a dictionary
RECURSIVE C24_Sum(_, _)
C24_Sum(f, keys) ==
    IF keys = {} THEN 0
    ELSE LET k == CHOOSE x \in keys : TRUE IN f[k] + C24_Sum(f, keys \ {k})

\* C24: the values of the returned results (by database id) add up to the
\* total_carbon of the returned detailed results (by material name), also
\* when two material names are mapped to one record.
C24_SumsAgree ==
    pc = "done" =>
        C24_Sum(returned[1], DOMAIN returned[1])
          = C24_Sum([m \in DOMAIN returned[2] |-> returned[2][m].total_carbon],
                    DOMAIN returned[2])

-----------------------------------------------------------------------------
(* Root revision: get_all_materials against the elements run() aggregates *)

\* get_all_materials of the root revision, as the count it reports for each
\* name: the elements whose material carries the name, each counted once
get_all_materials_root ==
    LET named(element) ==
            IF materials[element].kind # "None"
            THEN Range(_get_material_names(materials[element])) \ {""} ELSE {}
        reported == UNION { named(element) : element \in Elements }
    IN  [material_name \in reported |->
            Cardinality({ element \in Elements : material_name \in named(element) })]

\* C25: every material that get_all_materials reports with count c and that
\* the run gets to report has element_count = c, also a material that is
\* only the second layer of an element's layer set.
C25_CountsAgree ==
    pc = "done" =>
        \A m \in DOMAIN get_all_materials_root :
            m \in DOMAIN detailed_results =>
                detailed_results[m].element_count = get_all_materials_root[m]

-----------------------------------------------------------------------------
(* The operators of one Blender session: LoadIFC, UseActiveIFC,            *)
(* BrowseMaterials, RunAnalysis, ClearResults and AutoMapMaterials of      *)
(* src/src/operators.py, and MapMaterial of src/operators.py.  A model is  *)
(* named by a string; the results text of an analysis is named after the   *)
(* model it was computed from.                                             *)

outside == <<core, normVars, readerVars, kbobVars, servers, _web_server, _okobaudat_cache,
             material_database>>
sessionEnv == <<ifcopenshell, HAS_BONSAI, IfcStore_file, database_type, HAS_REQUESTS>>
loadFields == <<_ifc_file, ifc_file_path, ifc_loaded, material_mappings>>
resultFields == <<results_text, results_json, total_carbon, show_results>>

Entry(name, id, dbname, is_mapped) ==
    [ifc_material_name |-> name, database_id |-> id, database_name |-> dbname,
     is_mapped |-> is_mapped]

Warned(message) == [ret |-> "CANCELLED", level |-> "WARNING", message |-> message]
Silent(ret) == [ret |-> ret, level |-> "", message |-> ""]

\* extractor.get_all_materials() on a model: its material names
ModelMaterials(model) ==
    CASE model = "model" -> <<"Concrete", "Steel">>
      [] model = "model2" -> <<"Steel">>
      [] OTHER -> <<>>
\* where reading a model raises: nowhere, in by_type, or in get_all_materials
ModelFails(model) ==
    CASE model = "broken" -> "by_type"
      [] model = "odd" -> "get_all_materials"
      [] OTHER -> "no"
\* the total an analysis of a model comes to
ModelTotal(model) == IF model = "model" THEN 7 ELSE 9

\* for material_name, count in materials: item = material_mappings.add() ...
NewMappings(names) == [i \in DOMAIN names |-> Entry(names[i], "", "", FALSE)]

\* the body of the try block of LoadIFC / UseActiveIFC once the model is at
\* hand: _ifc_file is assigned first, the properties after the by_type calls,
\* the mappings are cleared before get_all_materials
LoadModel(model, path, failed, done) ==
    CASE ModelFails(model) = "by_type" ->
            /\ _ifc_file' = model
            /\ UNCHANGED <<ifc_file_path, ifc_loaded, material_mappings>>
            /\ op_report' = Cancelled(failed)
      [] ModelFails(model) = "get_all_materials" ->
            /\ _ifc_file' = model
            /\ ifc_file_path' = path
            /\ ifc_loaded' = TRUE
            /\ material_mappings' = <<>>
            /\ op_report' = Cancelled(failed)
      [] OTHER ->
            /\ _ifc_file' = model
            /\ ifc_file_path' = path
            /\ ifc_loaded' = TRUE
            /\ material_mappings' = NewMappings(ModelMaterials(model))
            /\ op_report' = Finished(done)

\* IFCLCA_OT_LoadIFC.execute with self.filepath = file.path
LoadIFC(file) ==
    /\ IF ~ifcopenshell
       THEN /\ op_report' = Cancelled("ifcopenshell not available")
            /\ UNCHANGED loadFields
       ELSE IF ~file.opens
       THEN /\ op_report' = Cancelled("Failed to load IFC file")
            /\ UNCHANGED loadFields
       ELSE LoadModel(file.model, file.path, "Failed to load IFC file", "Loaded IFC file")
    /\ UNCHANGED <<outside, sessionEnv, resultFields, analysis_called>>

\* IFCLCA_OT_UseActiveIFC.execute
UseActiveIFC ==
    /\ IF ~HAS_BONSAI
       THEN /\ op_report' = Cancelled("Bonsai is not available")
            /\ UNCHANGED loadFields
       ELSE IF IfcStore_file = "None"
       THEN /\ op_report' = Cancelled("No IFC file is currently loaded in Bonsai")
            /\ UNCHANGED loadFields
       ELSE LoadModel(IfcStore_file, "Active Bonsai IFC", "Failed to get active IFC",
                      "Using active IFC")
    /\ UNCHANGED <<outside, sessionEnv, resultFields, analysis_called>>

\* the one record of the material database: id, name, category
DbId == "KBOB_1"
DbName == "Beton"

\* IFCLCA_OT_MapMaterial.execute (root revision) with material_index and
\* database_entry; reader_ok says whether get_database_reader returns
MapMaterial(material_index, database_entry, reader_ok) ==
    /\ IF material_index \notin DOMAIN material_mappings
       THEN /\ op_report' = Cancelled("Failed to map material")
            /\ UNCHANGED material_mappings
       ELSE IF database_entry = "__category__Concrete"
       THEN /\ op_report' = Silent("CANCELLED")
            /\ UNCHANGED material_mappings
       ELSE IF database_entry # ""
       THEN LET assigned == [material_mappings EXCEPT ![material_index].database_id = database_entry] IN
            IF database_type \notin {"KBOB", "OKOBAUDAT"}
            THEN /\ op_report' = Silent("CANCELLED")
                 /\ material_mappings' = assigned
            ELSE IF database_type = "OKOBAUDAT" /\ ~reader_ok
            THEN /\ op_report' = Cancelled("Failed to map material")
                 /\ material_mappings' = assigned
            ELSE /\ op_report' = Silent("FINISHED")
                 /\ material_mappings' =
                        [assigned EXCEPT ![material_index].database_name = DbName,
                                         ![material_index].is_mapped = TRUE]
       ELSE /\ op_report' = Silent("FINISHED")
            /\ material_mappings' =
                   [material_mappings EXCEPT ![material_index].database_id = "",
                                             ![material_index].database_name = "",
                                             ![material_index].is_mapped = FALSE]
    /\ UNCHANGED <<outside, sessionEnv, resultFields, analysis_called,
                   _ifc_file, ifc_file_path, ifc_loaded>>

\* IFCLCA_OT_BrowseMaterials.execute with material_index; selected says
\* whether a row of the material list is selected, gwp is that row's gwp,
\* fetch_ok whether get_full_material_data returns
BrowseMaterials(material_index, selected, gwp, fetch_ok) ==
    /\ IF ~selected
       THEN /\ op_report' = Warned("Please select a material first")
            /\ UNCHANGED material_mappings
       ELSE IF material_index \notin DOMAIN material_mappings
       THEN /\ op_report' = Cancelled("Failed to map material")
            /\ UNCHANGED material_mappings
       ELSE IF database_type = "OKOBAUDAT_API" /\ gwp = 0 /\ ~fetch_ok
       THEN /\ op_report' = Cancelled("Failed to map material")
            /\ UNCHANGED material_mappings
       ELSE /\ op_report' = Finished("Material mapped")
            /\ material_mappings' =
                   [material_mappings EXCEPT ![material_index].database_id = DbId,
                                             ![material_index].database_name = DbName,
                                             ![material_index].is_mapped = TRUE]
    /\ UNCHANGED <<outside, sessionEnv, resultFields, analysis_called,
                   _ifc_file, ifc_file_path, ifc_loaded>>

\* AutoMapMaterials: whether the search, with its keyword fallback, finds a
\* record for a material name
HasMatch(ifc_material_name) == ifc_material_name = "Concrete"

\* AutoMapMaterials: the loop over the mapping entries
AutoMapLoop(mappings) ==
    [i \in DOMAIN mappings |->
        IF mappings[i].is_mapped THEN mappings[i]
        ELSE IF HasMatch(mappings[i].ifc_material_name)
        THEN [mappings[i] EXCEPT !.database_id = DbId, !.database_name = DbName,
                                 !.is_mapped = TRUE]
        ELSE mappings[i]]

\* IFCLCA_OT_AutoMapMaterials.execute
AutoMapMaterials ==
    /\ IF database_type = "OKOBAUDAT_API" /\ ~HAS_REQUESTS
       THEN /\ op_report' = Cancelled("The 'requests' module is not installed")
            /\ UNCHANGED material_mappings
       ELSE IF database_type \notin {"KBOB", "OKOBAUDAT_API"}
       THEN /\ op_report' = Cancelled("Invalid database type")
            /\ UNCHANGED material_mappings
       ELSE /\ op_report' = Finished("Auto-mapped")
            /\ material_mappings' = AutoMapLoop(material_mappings)
    /\ UNCHANGED <<outside, sessionEnv, resultFields, analysis_called,
                   _ifc_file, ifc_file_path, ifc_loaded>>

\* what an analysis of the held model comes to
HeldOutcomes ==
    IF ModelFails(_ifc_file) = "no"
    THEN {[ok |-> TRUE, text |-> _ifc_file, total |-> ModelTotal(_ifc_file)],
          [ok |-> FALSE, text |-> "", total |-> 0]}
    ELSE {[ok |-> FALSE, text |-> "", total |-> 0]}

\* IFCLCA_OT_RunAnalysis.execute on the held model
RunAnalysisHeld ==
    \E outcome \in HeldOutcomes :
        LET r == execute(ifc_loaded, _ifc_file, material_mappings, database_type,
                         HAS_REQUESTS, PropsState, outcome)
        IN  /\ op_report' = r.report
            /\ analysis_called' = r.called
            /\ results_text' = r.props.results_text
            /\ results_json' = r.props.results_json
            /\ total_carbon' = r.props.total_carbon
            /\ show_results' = r.props.show_results
            /\ UNCHANGED <<outside, sessionEnv, loadFields>>

\* IFCLCA_OT_ClearResults.execute
ClearResults ==
    /\ results_text' = ""
    /\ results_json' = ""
    /\ total_carbon' = 0
    /\ show_results' = FALSE
    /\ op_report' = Silent("FINISHED")
    /\ UNCHANGED <<outside, sessionEnv, loadFields, analysis_called>>

File(path, opens, model) == [path |-> path, opens |-> opens, model |-> model]
Files ==
    {File("a.ifc", TRUE, "model"), File("b.ifc", TRUE, "model2"),
     File("missing.ifc", FALSE, "None"), File("broken.ifc", TRUE, "broken"),
     File("odd.ifc", TRUE, "odd")}

\* a session that has loaded nothing yet
InitSession ==
    /\ CoreIdle /\ NormIdle /\ ReaderIdle /\ KbobIdle /\ WebIdle /\ CacheIdle
    /\ ifcopenshell \in BOOLEAN
    /\ HAS_BONSAI \in BOOLEAN
    /\ IfcStore_file \in {"None", "model2", "odd"}
    /\ database_type \in {"KBOB", "OKOBAUDAT", "OKOBAUDAT_API", "CUSTOM"}
    /\ HAS_REQUESTS \in BOOLEAN
    /\ ifc_file_path = "" /\ ifc_loaded = FALSE /\ _ifc_file = "None"
    /\ material_mappings = <<>>
    /\ results_text = "" /\ results_json = "" /\ total_carbon = 0
    /\ show_results = FALSE
    /\ op_report = <<>>
    /\ analysis_called = FALSE

NextSession ==
    \/ \E file \in Files : LoadIFC(file)
    \/ UseActiveIFC
    \/ \E material_index \in 1..3, database_entry \in {"", DbId, "__category__Concrete"},
          reader_ok \in BOOLEAN : MapMaterial(material_index, database_entry, reader_ok)
    \/ \E material_index \in 1..3, selected \in BOOLEAN, gwp \in {0, 2}, fetch_ok \in BOOLEAN :
          BrowseMaterials(material_index, selected, gwp, fetch_ok)
    \/ AutoMapMaterials
    \/ RunAnalysisHeld
    \/ ClearResults

SpecSession == InitSession /\ [][NextSession]_vars

\* C26: whenever results are shown, the results text, the results JSON and
\* the total are those computed from the model that is held now.
C26_NotStale ==
    show_results =>
        /\ results_text = _ifc_file
        /\ results_json = _ifc_file
        /\ total_carbon = ModelTotal(_ifc_file)

\* the reports with which LoadIFC and UseActiveIFC return CANCELLED
C27_LoadCancelled ==
    {Cancelled(m) : m \in {"ifcopenshell not available", "Failed to load IFC file",
                           "Bonsai is not available",
                           "No IFC file is currently loaded in Bonsai",
                           "Failed to get active IFC"}}
C27_Step ==
    op_report' \in C27_LoadCancelled =>
        UNCHANGED <<_ifc_file, ifc_loaded, ifc_file_path, material_mappings>>

\* C27: a LoadIFC or UseActiveIFC that returns CANCELLED leaves the held
\* model, ifc_loaded, ifc_file_path and the material mappings as they were.
C27_FailedLoadChangesNothing == [][C27_Step]_vars

\* C28: every mapping entry has is_mapped exactly when its database_id is
\* not empty, whatever operators ran and however they returned.
C28_EntriesConsistent ==
    \A i \in DOMAIN material_mappings :
        material_mappings[i].is_mapped <=> material_mappings[i].database_id # ""

-----------------------------------------------------------------------------
(* The results web server (src/src/operators.py, src/src/web_interface.py) *)
(*                                                                         *)
(* start_server binds a new TCPServer to a free port and starts a daemon   *)
(* thread running serve_forever on it; the thread keeps the server alive   *)
(* until shutdown() is called on it.  `servers` lists the servers that     *)
(* are serving, each with the results and the model its handler was built  *)
(* with; a server is named by its position in the list.                    *)

MaxServers == 2

\* start_server: one more server, serving the results it was given
start_server(running, detailed_results_arg, ifc_file) ==
    Append(running, [detailed_results |-> detailed_results_arg, ifc_file |-> ifc_file])

\* launch_results_browser: start_server, open the browser, hand back the server
launch_results_browser(running, detailed_results_arg, ifc_file) ==
    LET now == start_server(running, detailed_results_arg, ifc_file)
    IN  [servers |-> now, server |-> Len(now)]

\* IFCLCA_OT_ViewWebResults.execute
ViewWebResults ==
    /\ IF results_json = ""
       THEN /\ op_report' = Cancelled("No results available")
            /\ UNCHANGED <<servers, _web_server>>
       ELSE /\ Len(servers) < MaxServers
            /\ LET launched == launch_results_browser(servers, results_json, _ifc_file)
               IN  /\ servers' = launched.servers
                   /\ _web_server' = launched.server
            /\ op_report' = Finished("Opening results in web browser...")
    /\ UNCHANGED <<core, normVars, readerVars, kbobVars, sessionEnv, loadFields,
                   resultFields, analysis_called, _okobaudat_cache, material_database>>

\* a session on a machine without Bonsai, with the KBOB database chosen
InitWeb ==
    /\ InitSession
    /\ ifcopenshell = TRUE /\ HAS_BONSAI = FALSE /\ IfcStore_file = "None"
    /\ database_type = "KBOB" /\ HAS_REQUESTS = TRUE

NextWeb ==
    \/ \E file \in {f \in Files : f.path \in {"a.ifc", "b.ifc"}} : LoadIFC(file)
    \/ \E material_index \in 1..2, database_entry \in {DbId} :
          MapMaterial(material_index, database_entry, TRUE)
    \/ RunAnalysisHeld
    \/ ViewWebResults

SpecWeb == InitWeb /\ [][NextWeb]_vars

\* C29: after any sequence of ViewWebResults executions at most one results
\* web server started by the add-on is running: launching the viewer again
\* does not leave an earlier server alive and serving older results
C29_AtMostOneServer == Len(servers) <= 1

\* no server other than the one _web_server names serves results that
\* differ from the scene's
C29_NoOlderResults ==
    \A server \in 1 .. Len(servers) :
        server # _web_server => servers[server].detailed_results = results_json

-----------------------------------------------------------------------------
(* The Oekobaudat material cache (src/src/operators.py)                    *)
(*                                                                         *)
(* _okobaudat_cache.cache maps a material id to what the last fetch of it  *)
(* handed back: a normalised record or {}.  Cached data is the record      *)
(* [t, carbon_per_unit, density] with t = "record" for a non-empty dict,   *)
(* "empty" for {} and "none" for None.  The operators make a new           *)
(* OkobaudatAPIReader each time they are executed.                         *)

NoneData == [t |-> "none", carbon_per_unit |-> 0, density |-> 0]
EmptyDict == [t |-> "empty", carbon_per_unit |-> 0, density |-> 0]
RecordData(record) ==
    [t |-> "record", carbon_per_unit |-> record.carbon_per_unit, density |-> record.density]

\* the truth value Python gives cached data: None and {} are false
IsTruthy(cached_data) == cached_data.t = "record"

\* OkobaudatCache.get
cache_get(cache, material_id) ==
    IF material_id \in DOMAIN cache THEN cache[material_id] ELSE NoneData

\* OkobaudatCache.set
cache_set(cache, material_id, cached_data) ==
    [id \in DOMAIN cache \cup {material_id} |->
        IF id = material_id THEN cached_data ELSE cache[id]]

\* OkobaudatCache.has: whether the data is worth keeping is not asked
cache_has(cache, material_id) == material_id \in DOMAIN cache

\* OkobaudatCache.clear
cache_clear(cache) == <<>>

\* an item of scene.ifclca_material_database
DatabaseItem(material_id, gwp, density) ==
    [material_id |-> material_id, gwp |-> gwp, density |-> density]

\* item.gwp = safe_float(data.get('carbon_per_unit')) and the same for density
WithData(item, cached_data) ==
    [item EXCEPT !.gwp = cached_data.carbon_per_unit, !.density = cached_data.density]

\* get_extended_database_reader('OKOBAUDAT_API', key): a reader that holds nothing
NewReader == [data |-> <<>>, list |-> <<>>, cached |-> FALSE]

\* what get_full_material_data handed back, as cached data
FullData(r) == IF r.t = "record" THEN RecordData(r.entry.record) ELSE EmptyDict

\* IFCLCA_OT_FetchMaterialData.execute; material_index counts from 1
FetchMaterialData(material_index) ==
    /\ IF material_index < 1 \/ material_index > Len(material_database)
       THEN /\ op_report' = Silent("CANCELLED")
            /\ UNCHANGED <<_okobaudat_cache, material_database>>
       ELSE LET item == material_database[material_index]
                cached_data == cache_get(_okobaudat_cache, item.material_id)
            IN  IF IsTruthy(cached_data)
                THEN /\ material_database' =
                            [material_database EXCEPT ![material_index] = WithData(item, cached_data)]
                     /\ op_report' = Silent("FINISHED")
                     /\ UNCHANGED _okobaudat_cache
                ELSE IF item.gwp > 0
                THEN /\ op_report' = Silent("FINISHED")
                     /\ UNCHANGED <<_okobaudat_cache, material_database>>
                ELSE LET r == get_full_material_data(NewReader, item.material_id) IN
                     IF r.t = "raised"
                     THEN /\ op_report' = Cancelled("Failed to fetch data")
                          /\ UNCHANGED <<_okobaudat_cache, material_database>>
                     ELSE /\ _okobaudat_cache' =
                                 cache_set(_okobaudat_cache, item.material_id, FullData(r))
                          /\ material_database' =
                                 [material_database EXCEPT ![material_index] = WithData(item, FullData(r))]
                          /\ op_report' = Silent("FINISHED")
    /\ UNCHANGED <<core, normVars, readerVars, kbobVars, sessionEnv, loadFields,
                   resultFields, analysis_called, servers, _web_server>>

\* the loop of IFCLCA_OT_PreloadVisibleMaterials.execute over items i .. end
\* (from 1): acc = [cache, db, st], st the state of the loop's one reader
RECURSIVE PreloadLoop(_, _, _)
PreloadLoop(i, end, acc) ==
    IF i > end THEN acc
    ELSE LET item == acc.db[i] IN
         IF item.gwp > 0 \/ cache_has(acc.cache, item.material_id)
         THEN PreloadLoop(i + 1, end, acc)
         ELSE LET r == get_full_material_data(acc.st, item.material_id) IN
              IF r.t = "raised"
              THEN PreloadLoop(i + 1, end, acc)
              ELSE PreloadLoop(i + 1, end,
                       [cache |-> cache_set(acc.cache, item.material_id, FullData(r)),
                        db |-> [acc.db EXCEPT ![i] = WithData(item, FullData(r))],
                        st |-> r.st])

PreloadBuffer == 5
Larger(a, b) == IF a > b THEN a ELSE b
Smaller(a, b) == IF a < b THEN a ELSE b

\* IFCLCA_OT_PreloadVisibleMaterials.execute; start_index and end_index
\* count from 0 as in the source, the loop from 1
PreloadVisibleMaterials(start_index, end_index) ==
    /\ IF database_type # "OKOBAUDAT_API"
       THEN UNCHANGED <<_okobaudat_cache, material_database>>
       ELSE LET start == Larger(0, Larger(0, start_index) - PreloadBuffer)
                end == Smaller(Len(material_database),
                               Smaller(Len(material_database), end_index) + PreloadBuffer)
                acc == PreloadLoop(start + 1, end,
                                   [cache |-> _okobaudat_cache, db |-> material_database,
                                    st |-> NewReader])
            IN  /\ _okobaudat_cache' = acc.cache
                /\ material_database' = acc.db
    /\ op_report' = Silent("FINISHED")
    /\ UNCHANGED <<core, normVars, readerVars, kbobVars, sessionEnv, loadFields,
                   resultFields, analysis_called, servers, _web_server>>

\* IFCLCA_OT_ClearMaterialCache.execute
ClearMaterialCache ==
    /\ _okobaudat_cache' = cache_clear(_okobaudat_cache)
    /\ op_report' = Finished("Cleared cached materials")
    /\ UNCHANGED <<core, normVars, readerVars, kbobVars, sessionEnv, loadFields,
                   resultFields, analysis_called, servers, _web_server, material_database>>

\* the lists the material browser shows: nothing fetched yet
Listings ==
    { << DatabaseItem(MaterialId("a"), 0, 0), DatabaseItem(MaterialId("b"), 0, 0) >>,
      << DatabaseItem(MaterialId("b"), 0, 0), DatabaseItem(<<"KBOB_", "1">>, 0, 0) >>,
      << DatabaseItem(MaterialId("a"), 0, 0) >> }

\* a scene with a listed database, an empty cache and an API that answers
\* each detail request in one way
InitCache ==
    /\ CoreIdle /\ NormIdle /\ KbobIdle /\ WebIdle
    /\ \E detail \in [Uuids -> DetailResponses] :
          remote = [list |-> [q \in SearchQueries \cup {""} |-> NotListed], detail |-> detail]
    /\ reader_data = <<>> /\ materials_list = <<>> /\ _cached = FALSE /\ reader_out = <<>>
    /\ ifcopenshell = TRUE /\ HAS_BONSAI = FALSE /\ IfcStore_file = "None"
    /\ ifc_file_path = "" /\ ifc_loaded = FALSE /\ _ifc_file = "None"
    /\ material_mappings = <<>>
    /\ database_type \in {"KBOB", "OKOBAUDAT_API"} /\ HAS_REQUESTS = TRUE
    /\ results_text = "" /\ results_json = "" /\ total_carbon = 0
    /\ show_results = FALSE /\ op_report = <<>> /\ analysis_called = FALSE
    /\ _okobaudat_cache = <<>>
    /\ material_database \in Listings

NextCache ==
    \/ \E material_index \in 0 .. 2 : FetchMaterialData(material_index)
    \/ \E start_index \in {0, 1}, end_index \in {1, 2} :
          PreloadVisibleMaterials(start_index, end_index)
    \/ ClearMaterialCache

SpecCache == InitCache /\ [][NextCache]_vars

\* C30: the operators agree on what is cached: after any sequence of set and
\* clear calls made by FetchMaterialData, PreloadVisibleMaterials and
\* ClearMaterialCache, has(id) is true exactly when get(id) yields usable
\* (non-empty) data, so a fetch that returned no data is not remembered
C30_HasIffUsable ==
    \A material_id \in MaterialIds :
        cache_has(_okobaudat_cache, material_id)
            <=> IsTruthy(cache_get(_okobaudat_cache, material_id))

====
